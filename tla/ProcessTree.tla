---------------------------- MODULE ProcessTree ----------------------------
(***************************************************************************)
(* The process tree of the terminal interface (tui/app.rs): the rows it    *)
(* makes of the parents that App.process_map knows.                        *)
(***************************************************************************)
EXTENDS Tui

Children(p) == {c \in DOMAIN procs : procs[c] = p /\ c # p}

\* Slip: a process whose parent has not been seen is no root.
RootsOfZero == {p \in DOMAIN procs : procs[p] = 0}

Roots == {p \in DOMAIN procs : procs[p] = 0 \/ procs[p] \notin DOMAIN procs}

\* The calls of dfs for the members of S, sorted.
Calls(S, depth) ==
  [k \in 1..Cardinality(S) |-> [pid |-> Ascending(S)[k], depth |-> depth]]

\* The next call of dfs, if there is one: it returns at once for a process that was
\* visited, or appends the process and calls dfs for its children before all calls
\* that are still to come.
Dfs(walk) ==
  LET call == Head(walk.calls)
      rest == Tail(walk.calls)
  IN  IF walk.calls = <<>> THEN walk
      ELSE IF \E i \in DOMAIN walk.order : walk.order[i].pid = call.pid
      THEN [walk EXCEPT !.calls = rest]
      ELSE [calls |-> Calls(Children(call.pid), call.depth + 1) \o rest,
            order |-> Append(walk.order, call)]

\* No process has more children than there are processes, so that there are no more
\* calls than these.
MostCalls == LET n == Cardinality(DOMAIN procs) IN n * (n + 1)

Walk[k \in 0..MostCalls] ==
  IF k = 0 THEN [calls |-> Calls(Roots, 0), order |-> <<>>] ELSE Dfs(Walk[k - 1])

process_tree_rows == Walk[MostCalls].order

-----------------------------------------------------------------------------
\* The processes whose ancestors never end, at 0 or at one that has not been seen:
\* reused process ids can make them run in a circle.
Circling == UNION {S \in SUBSET DOMAIN procs : \A p \in S : procs[p] \in S \ {0}}

\* The tree shows every process whose ancestors do not run in a circle; it shows none
\* twice, and each one below its parent (process_tree_rows, tui/app.rs:456-491).
TreeShowsAll ==
  LET tree == process_tree_rows
  IN  /\ \A i, j \in DOMAIN tree : tree[i].pid = tree[j].pid => i = j
      /\ DOMAIN procs \ Circling \subseteq {tree[i].pid : i \in DOMAIN tree}
      /\ \A i \in DOMAIN tree :
           tree[i].depth > 0 => \E j \in 1..(i - 1) : /\ tree[j].pid = procs[tree[i].pid]
                                                     /\ tree[j].depth = tree[i].depth - 1

=============================================================================

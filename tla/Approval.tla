------------------------------- MODULE Approval -------------------------------
(***************************************************************************)
(* The approval workflow for rules the advisor proposes (approval.rs): the *)
(* advisor's task writes proposals into files of pending_dir or            *)
(* approved_dir (ai_advisor/mod.rs), reviewers approve and reject them     *)
(* from the TUI (tui/app.rs) and from the command line (main.rs), a        *)
(* task of the daemon reaps old ones, and the operator owns the rest of    *)
(* approved_dir.  Nothing is locked: every system call on a directory is a *)
(* step of its own, and another process may run between two of them.       *)
(*                                                                         *)
(* A file is its name and, apart from it, its contents and age, since a    *)
(* writer keeps the file when another process renames or removes it.  The  *)
(* name has a time stamp in nanoseconds and is not used twice.  Listing    *)
(* changes nothing, and is left out.  Ages are counted up to Ttl.          *)
(***************************************************************************)
EXTENDS Naturals, FiniteSets

CONSTANTS
  Proposal,  \* rules the advisor proposes, and the names of their files
  Own,       \* other files in approved_dir, not named ai-approved-*.toml
  Reviewer,  \* the TUI and runs of the command line tool
  Ttl,       \* approval_ttl_secs at the daemon's start, in ticks
  None

ASSUME ApprovalAssumption ==
  /\ Proposal \cap Own = {}
  /\ None \notin Proposal \cup Own
  /\ Ttl \in Nat \ {0}

Name == Proposal \cup Own

VARIABLES
  pending, approved,  \* the names in the two directories
  body,      \* body[f]: "none" before the file exists, "empty", "cut", "whole"
  age,       \* age[f]: the time since it was last written (mtime)
  writing,   \* the file the advisor has open
  rev,       \* rev[r]: a reviewer's call of approve or reject in progress
  sweep,     \* reap_expired: entries to look at, those expired, the one to remove
  decisions, \* history: decisions[p], the calls that reported success
  reaped,    \* history: files the reaper removed
  proposedFor  \* history: the time since a proposal's file was created

vars == <<pending, approved, body, age, writing, rev, sweep,
          decisions, reaped, proposedFor>>
files    == <<body, age, writing, proposedFor>>
dirs     == <<pending, approved>>
history  == <<decisions, reaped>>

-----------------------------------------------------------------------------
Asleep == [at |-> "sleep", todo |-> {}, expired |-> {}, file |-> None]

Init ==
  /\ pending = {} /\ approved = Own
  /\ body = [f \in Name |-> IF f \in Own THEN "whole" ELSE "none"]
  /\ age = [f \in Name |-> IF f \in Own THEN Ttl ELSE 0]
  /\ proposedFor = [p \in Proposal |-> 0]
  /\ writing = None
  /\ rev = [r \in Reviewer |-> [at |-> "idle", file |-> None]]
  /\ sweep = Asleep
  /\ decisions = [p \in Proposal |-> {}] /\ reaped = {}

\* readdir may or may not list what enters approved_dir during a sweep.
MayList(f) ==
  \/ UNCHANGED sweep
  \/ sweep.at # "sleep" /\ sweep' = [sweep EXCEPT !.todo = @ \cup {f}]

(***************************************************************************)
(* stage_pending and stage_auto: the file is created, then written.        *)
(***************************************************************************)
Create(p) ==
  /\ writing = None /\ body[p] = "none"
  /\ body' = [body EXCEPT ![p] = "empty"]
  /\ writing' = p
  /\ UNCHANGED <<age, proposedFor, rev, history>>

StagePending(p) ==
  Create(p) /\ pending' = pending \cup {p} /\ UNCHANGED <<approved, sweep>>
StageAuto(p) ==
  Create(p) /\ approved' = approved \cup {p} /\ MayList(p) /\ UNCHANGED pending

\* The contents arrive, or some of them if the disk is full, and the file
\* counts as new again.
WriteRule ==
  /\ writing # None
  /\ body' \in {[body EXCEPT ![writing] = b] : b \in {"whole", "cut", "empty"}}
  /\ age' = [age EXCEPT ![writing] = 0]
  /\ sweep' = [sweep EXCEPT !.expired = @ \ {writing}]
  /\ writing' = None
  /\ UNCHANGED <<proposedFor, dirs, rev, history>>

(***************************************************************************)
(* The reviewers.                                                          *)
(***************************************************************************)
\* A reviewer may name any proposal: the command line takes any id, and the TUI
\* one of a listing that may be stale.
\* src.exists(); if it does not, the call fails and nothing changes.
Exists(r, p, where) ==
  /\ rev[r].at = "idle" /\ p \in pending
  /\ rev' = [rev EXCEPT ![r].at = where, ![r].file = p]
  /\ UNCHANGED <<dirs, files, sweep, history>>

BeginApprove(r, p) == Exists(r, p, "rename")
BeginReject(r, p)  == Exists(r, p, "remove")

CallEnds(r) ==
  /\ rev' = [rev EXCEPT ![r].at = "idle", ![r].file = None]
  /\ UNCHANGED <<files, reaped>>

Succeeds(r, verdict) ==
  decisions' = [decisions EXCEPT ![rev[r].file] = @ \cup {<<r, verdict>>}]

\* Slip: copied, and the original is left where it is.
CopyFile(r) ==
  /\ rev[r].at = "rename" /\ rev[r].file \in pending
  /\ approved' = approved \cup {rev[r].file}
  /\ Succeeds(r, "approve")
  /\ CallEnds(r) /\ MayList(rev[r].file) /\ UNCHANGED pending

Rename(r) ==
  /\ rev[r].at = "rename" /\ rev[r].file \in pending
  /\ pending' = pending \ {rev[r].file}
  /\ approved' = approved \cup {rev[r].file}
  /\ Succeeds(r, "approve")
  /\ CallEnds(r) /\ MayList(rev[r].file)

\* Slip: a file that is gone already counts as rejected.
RemoveIfThere(r) ==
  /\ rev[r].at = "remove"
  /\ pending' = pending \ {rev[r].file}
  /\ Succeeds(r, "reject")
  /\ CallEnds(r) /\ UNCHANGED <<approved, sweep>>

RemoveFile(r) ==
  /\ rev[r].at = "remove" /\ rev[r].file \in pending
  /\ pending' = pending \ {rev[r].file}
  /\ Succeeds(r, "reject")
  /\ CallEnds(r) /\ UNCHANGED <<approved, sweep>>

\* rename or remove_file fails: another reviewer was faster, or the file stays
\* where it is (directories on two file systems, one not writable).
CallFails(r) ==
  /\ rev[r].at # "idle"
  /\ CallEnds(r) /\ UNCHANGED <<dirs, decisions, sweep>>

(***************************************************************************)
(* The reaper.                                                             *)
(***************************************************************************)
SweepTo(s) == sweep' = s /\ UNCHANGED <<pending, files, rev, decisions>>

\* now is taken, which decides which files have expired, and reading begins.
StartSweep ==
  /\ sweep.at = "sleep"
  /\ SweepTo([at |-> "scan", todo |-> approved, file |-> None,
              expired |-> {f \in Name : body[f] # "none" /\ age[f] >= Ttl}])
  /\ UNCHANGED <<approved, reaped>>

SkipOwn ==
  /\ sweep.at = "scan"
  /\ \E f \in sweep.todo \cap Own : SweepTo([sweep EXCEPT !.todo = @ \ {f}])
  /\ UNCHANGED <<approved, reaped>>

\* Slip: age is not looked at.
InspectAny ==
  /\ sweep.at = "scan"
  /\ \E f \in sweep.todo \cap Proposal \cap approved :
       SweepTo([sweep EXCEPT !.at = "remove", !.file = f])
  /\ UNCHANGED <<approved, reaped>>

Inspect ==
  /\ sweep.at = "scan"
  /\ \E f \in sweep.todo \cap Proposal \cap approved :
       SweepTo(IF f \in sweep.expired
               THEN [sweep EXCEPT !.at = "remove", !.file = f]
               ELSE [sweep EXCEPT !.todo = @ \ {f}])
  /\ UNCHANGED <<approved, reaped>>

\* An entry has gone: metadata()? ends the sweep, or it is no longer listed.
InspectFails ==
  /\ sweep.at = "scan"
  /\ \E f \in (sweep.todo \cap Proposal) \ approved :
       SweepTo(Asleep) \/ SweepTo([sweep EXCEPT !.todo = @ \ {f}])
  /\ UNCHANGED <<approved, reaped>>

Continue == SweepTo([sweep EXCEPT !.at = "scan", !.todo = @ \ {sweep.file}, !.file = None])

Reap ==
  /\ sweep.at = "remove"
  /\ approved' = approved \ {sweep.file}
  /\ reaped' = reaped \cup (approved \cap {sweep.file})
  /\ Continue

\* Slip: the error is returned, as those of metadata are.
ReapFailsForAll ==
  /\ sweep.at = "remove"
  /\ SweepTo(Asleep)
  /\ UNCHANGED <<approved, reaped>>

\* remove_file fails and the file stays: a warning, and on to the next one.
ReapFails ==
  /\ sweep.at = "remove"
  /\ Continue
  /\ UNCHANGED <<approved, reaped>>

EndSweep ==
  /\ sweep.at = "scan" /\ sweep.todo = {}
  /\ SweepTo(Asleep)
  /\ UNCHANGED <<approved, reaped>>

(***************************************************************************)
(* The operator ("review or remove as needed", says each file), and time.  *)
(***************************************************************************)
OperatorRemoves(p) ==
  /\ p \in approved
  /\ approved' = approved \ {p}
  /\ UNCHANGED <<pending, files, rev, sweep, history>>

Older(n) == IF n < Ttl THEN n + 1 ELSE n

Tick ==
  /\ age' = [f \in Name |-> IF body[f] = "none" THEN age[f] ELSE Older(age[f])]
  /\ proposedFor' = [p \in Proposal |-> IF body[p] = "none" THEN 0 ELSE Older(proposedFor[p])]
  /\ UNCHANGED <<body, writing, dirs, rev, sweep, history>>

-----------------------------------------------------------------------------
SweepStep == SkipOwn \/ Inspect \/ InspectFails \/ Reap \/ ReapFails \/ EndSweep

Next ==
  \/ \E p \in Proposal : StagePending(p) \/ StageAuto(p)
  \/ WriteRule
  \/ \E r \in Reviewer :
       \/ \E p \in Proposal : BeginApprove(r, p) \/ BeginReject(r, p)
       \/ Rename(r) \/ RemoveFile(r) \/ CallFails(r)
  \/ StartSweep \/ SweepStep
  \/ \E p \in Proposal : OperatorRemoves(p)
  \/ Tick

Spec == Init /\ [][Next]_vars

\* Time passes, the reaper's timer fires, and its sweep is scheduled.  Nothing is
\* assumed of what the sweep's system calls return.
FairSpec == Spec /\ WF_vars(Tick) /\ WF_vars(StartSweep) /\ WF_vars(SweepStep)

-----------------------------------------------------------------------------
TypeOK ==
  /\ pending \subseteq Proposal /\ approved \subseteq Name
  /\ body \in [Name -> {"none", "empty", "cut", "whole"}]
  /\ age \in [Name -> 0..Ttl] /\ proposedFor \in [Proposal -> 0..Ttl]
  /\ writing \in Proposal \cup {None}
  /\ rev \in [Reviewer -> [at : {"idle", "rename", "remove"},
                           file : Proposal \cup {None}]]
  /\ \A r \in Reviewer : rev[r].at = "idle" <=> rev[r].file = None
  /\ sweep \in [at : {"sleep", "scan", "remove"}, todo : SUBSET Name,
                expired : SUBSET Name, file : Proposal \cup {None}]
  /\ sweep.at = "remove" <=> sweep.file # None
  /\ decisions \in [Proposal -> SUBSET (Reviewer \X {"approve", "reject"})]
  /\ reaped \subseteq Name

\* Of all the reviewers that decide about a proposal, on what may be a stale
\* listing, at most one is told that it worked: nobody believes to have rejected
\* a rule that is in effect, or to have approved one that is not.
OneDecision == \A p \in Proposal : Cardinality(decisions[p]) <= 1

\* What is left of a decision can be told from the directories.
DecisionsHold ==
  \A p \in Proposal, r \in Reviewer :
    /\ <<r, "reject">> \in decisions[p] => p \notin pending \cup approved
    /\ <<r, "approve">> \in decisions[p] => p \notin pending

(***************************************************************************)
(* The workflow keeps the promises of ProposalLifecycle.                   *)
(***************************************************************************)
Status(p) ==
  IF p \in pending THEN "pending"
  ELSE IF p \in approved THEN "approved"
  ELSE IF p \in reaped THEN "expired"
  ELSE IF body[p] # "none" THEN "closed" ELSE "new"

L == INSTANCE ProposalLifecycle WITH
       status <- [p \in Proposal |-> Status(p)], old <- proposedFor

FollowsLifecycle == L!Spec

\* An approved rule goes in the end, even if nobody restarts a failed sweep, unless
\* its own removal is refused again and again: a file that cannot be removed does
\* not keep the others in effect.
RefusedForever(p) == []<><<ReapFails /\ sweep.file = p>>_vars

ApprovedExpire ==
  \A p \in Proposal : RefusedForever(p) \/ (p \in approved ~> p \notin approved)

=============================================================================

--------------------------- MODULE ApprovalProofs ---------------------------
(***************************************************************************)
(* Proofs about Approval, for any number of proposals and reviewers and    *)
(* any time to live: one decision per proposal, which the directories      *)
(* show, and the refinement of ProposalLifecycle.                          *)
(***************************************************************************)
EXTENDS Approval, FiniteSetTheorems, TLAPS

-----------------------------------------------------------------------------
(***************************************************************************)
(* Types                                                                   *)
(***************************************************************************)
LEMMA InitTypeOK == Init => TypeOK
BY ApprovalAssumption DEF Init, TypeOK, Name, Asleep

LEMMA OlderType == ASSUME NEW n \in 0..Ttl PROVE Older(n) \in 0..Ttl
BY ApprovalAssumption DEF Older

\* The types of a sweep.
SweepTypeOK(s) ==
  /\ s \in [at : {"sleep", "scan", "remove"}, todo : SUBSET Name,
             expired : SUBSET Name, file : Proposal \cup {None}]
  /\ s.at = "remove" <=> s.file # None

\* What a sweep still may list changes neither what it holds nor what has expired.
LEMMA ListedType ==
  ASSUME TypeOK, NEW f \in Proposal, MayList(f)
  PROVE  /\ SweepTypeOK(sweep')
         /\ sweep'.at = sweep.at /\ sweep'.expired = sweep.expired /\ sweep'.file = sweep.file
BY DEF TypeOK, MayList, SweepTypeOK, Name

LEMMA WriterType ==
  ASSUME TypeOK, (\E p \in Proposal : StagePending(p) \/ StageAuto(p)) \/ WriteRule
  PROVE  TypeOK'
<1>1. ASSUME NEW p \in Proposal, StagePending(p) \/ StageAuto(p) PROVE TypeOK'
  <2>1. MayList(p)
    BY <1>1 DEF StagePending, StageAuto, MayList
  <2> QED
    BY <1>1, <2>1, ListedType
    DEF StagePending, StageAuto, Create, TypeOK, SweepTypeOK, Name, history
<1>2. CASE WriteRule
  <2>1. writing \in Proposal
    BY <1>2 DEF WriteRule, TypeOK
  <2>2. body' \in [Name -> {"none", "empty", "cut", "whole"}]
    BY <1>2, <2>1 DEF WriteRule, TypeOK, Name
  <2>3. age' \in [Name -> 0..Ttl]
    BY <1>2, <2>1, ApprovalAssumption DEF WriteRule, TypeOK, Name
  <2>4. sweep' \in [at : {"sleep", "scan", "remove"}, todo : SUBSET Name,
                    expired : SUBSET Name, file : Proposal \cup {None}]
    BY <1>2 DEF WriteRule, TypeOK
  <2> QED
    BY <1>2, <2>2, <2>3, <2>4 DEF WriteRule, TypeOK, dirs, history
<1> QED
  BY <1>1, <1>2

LEMMA ReviewerType ==
  ASSUME TypeOK, NEW r \in Reviewer,
         \/ \E p \in Proposal : BeginApprove(r, p) \/ BeginReject(r, p)
         \/ Rename(r) \/ RemoveFile(r) \/ CallFails(r)
  PROVE  TypeOK'
<1>1. None \notin Proposal
  BY ApprovalAssumption
<1>2. ASSUME NEW p \in Proposal, NEW where \in {"rename", "remove"}, Exists(r, p, where)
      PROVE  TypeOK'
  <2> DEFINE Calls == [at : {"idle", "rename", "remove"}, file : Proposal \cup {None}]
  <2>1. rev' \in [Reviewer -> Calls]
    <3>1. rev[r] \in Calls /\ rev \in [Reviewer -> Calls]
      BY DEF TypeOK
    <3>2. [[rev[r] EXCEPT !.at = where] EXCEPT !.file = p] \in Calls
      BY <3>1
    <3>3. rev' = [rev EXCEPT ![r] = [[rev[r] EXCEPT !.at = where] EXCEPT !.file = p]]
      BY <1>2, <3>1 DEF Exists
    <3> QED
      BY <3>1, <3>2, <3>3
  <2>2. \A q \in Reviewer : rev'[q].at = "idle" <=> rev'[q].file = None
    BY <1>1, <1>2 DEF Exists, TypeOK
  <2> QED
    BY <1>2, <2>1, <2>2 DEF Exists, TypeOK, dirs, files, history
<1>3. ASSUME CallEnds(r)
      PROVE  /\ rev' \in [Reviewer -> [at : {"idle", "rename", "remove"},
                                       file : Proposal \cup {None}]]
             /\ \A q \in Reviewer : rev'[q].at = "idle" <=> rev'[q].file = None
  <2> DEFINE Calls == [at : {"idle", "rename", "remove"}, file : Proposal \cup {None}]
  <2>1. rev' \in [Reviewer -> Calls]
    <3>1. rev[r] \in Calls /\ rev \in [Reviewer -> Calls]
      BY DEF TypeOK
    <3>2. [[rev[r] EXCEPT !.at = "idle"] EXCEPT !.file = None] \in Calls
      BY <3>1
    <3>3. rev' = [rev EXCEPT ![r] = [[rev[r] EXCEPT !.at = "idle"] EXCEPT !.file = None]]
      BY <1>3, <3>1 DEF CallEnds
    <3> QED
      BY <3>1, <3>2, <3>3
  <2>2. \A q \in Reviewer : rev'[q].at = "idle" <=> rev'[q].file = None
    BY <1>3, SMTT(30) DEF CallEnds, TypeOK
  <2> QED
    BY <2>1, <2>2
<1>4. ASSUME NEW v \in {"approve", "reject"}, Succeeds(r, v), rev[r].file \in pending
      PROVE  decisions' \in [Proposal -> SUBSET (Reviewer \X {"approve", "reject"})]
  BY <1>4 DEF Succeeds, TypeOK
<1>5. CASE Rename(r)
  <2>1. rev[r].file \in Proposal /\ MayList(rev[r].file)
    BY <1>5 DEF Rename, TypeOK
  <2>2. SweepTypeOK(sweep')
    BY <2>1, ListedType
  <2> QED
    BY <1>3, <1>4, <1>5, <2>1, <2>2 DEF Rename, CallEnds, TypeOK, SweepTypeOK, files, Name
<1>6. CASE RemoveFile(r)
  BY <1>3, <1>4, <1>6 DEF RemoveFile, CallEnds, TypeOK, files
<1>7. CASE CallFails(r)
  BY <1>3, <1>7 DEF CallFails, CallEnds, TypeOK, files, dirs
<1> QED
  BY <1>2, <1>5, <1>6, <1>7 DEF BeginApprove, BeginReject

LEMMA ReaperType == ASSUME TypeOK, StartSweep \/ SweepStep PROVE TypeOK'
<1>1. None \notin Proposal
  BY ApprovalAssumption
<1>2. ASSUME NEW s \in [at : {"sleep", "scan", "remove"}, todo : SUBSET Name,
                        expired : SUBSET Name, file : Proposal \cup {None}],
             s.at = "remove" <=> s.file # None, SweepTo(s),
             approved' \subseteq Name, reaped' \subseteq Name
      PROVE  TypeOK'
  BY <1>2 DEF SweepTo, TypeOK, files
<1>3. CASE StartSweep
  BY <1>2, <1>3 DEF StartSweep, TypeOK
<1>4. CASE SkipOwn
  BY <1>2, <1>4 DEF SkipOwn, TypeOK
<1>5. CASE Inspect
  BY <1>1, <1>2, <1>5 DEF Inspect, TypeOK
<1>6. CASE InspectFails \/ EndSweep
  BY <1>2, <1>6 DEF InspectFails, EndSweep, Asleep, TypeOK
<1>7. CASE Reap \/ ReapFails
  BY <1>2, <1>7 DEF Reap, ReapFails, Continue, TypeOK
<1> QED
  BY <1>3, <1>4, <1>5, <1>6, <1>7 DEF SweepStep

LEMMA StepTypeOK == TypeOK /\ [Next]_vars => TypeOK'
<1> SUFFICES ASSUME TypeOK, [Next]_vars PROVE TypeOK'
  OBVIOUS
<1>1. ASSUME NEW p \in Proposal, OperatorRemoves(p) PROVE TypeOK'
  BY <1>1 DEF OperatorRemoves, TypeOK, files, history
<1>2. CASE Tick
  <2>1. age' \in [Name -> 0..Ttl]
    BY <1>2, OlderType DEF Tick, TypeOK
  <2>2. proposedFor' \in [Proposal -> 0..Ttl]
    BY <1>2, OlderType, ApprovalAssumption DEF Tick, TypeOK
  <2> QED
    BY <1>2, <2>1, <2>2 DEF Tick, TypeOK, dirs, history
<1>3. CASE UNCHANGED vars
  BY <1>3 DEF TypeOK, vars
<1> QED
  BY <1>1, <1>2, <1>3, WriterType, ReviewerType, ReaperType DEF Next

\* Whatever the interleaving of the processes, the state keeps its types; a
\* reviewer is in a call if and only if it holds a proposal.
THEOREM TypeCorrect == Spec => []TypeOK
BY InitTypeOK, StepTypeOK, PTL DEF Spec

-----------------------------------------------------------------------------
(***************************************************************************)
(* Decisions.  OneDecision is inductive with what the directories say of   *)
(* a proposal: while it is pending nobody has decided about it, and it is  *)
(* not in effect; what is rejected is nowhere.                             *)
(***************************************************************************)
\* A proposal whose file was never created has left no trace.
Untouched ==
  /\ \A p \in Proposal :
       body[p] = "none" => /\ p \notin pending \cup approved \cup reaped
                           /\ decisions[p] = {} /\ age[p] = 0 /\ proposedFor[p] = 0
  /\ writing # None => body[writing] # "none"

\* At most one decision, and a pending proposal has none and is in no other state.
Decided ==
  \A p \in Proposal :
    /\ decisions[p] = {} \/ \E d \in Reviewer \X {"approve", "reject"} : decisions[p] = {d}
    /\ p \in pending => decisions[p] = {} /\ p \notin approved /\ p \notin reaped
    /\ p \in reaped => p \notin approved
    /\ \A r \in Reviewer : <<r, "reject">> \in decisions[p] => p \notin approved

LEMMA InitDecided == Init => Untouched /\ Decided
BY ApprovalAssumption DEF Init, Untouched, Decided, Name

LEMMA StepUntouched == TypeOK /\ Untouched /\ [Next]_vars => Untouched'
<1> SUFFICES ASSUME TypeOK, Untouched, [Next]_vars PROVE Untouched'
  OBVIOUS
<1>1. Proposal \subseteq Name /\ None \notin Name
  BY ApprovalAssumption DEF Name
<1>2. ASSUME NEW p \in Proposal, StagePending(p) \/ StageAuto(p) PROVE Untouched'
  BY <1>1, <1>2 DEF StagePending, StageAuto, Create, Untouched, TypeOK, history
<1>3. CASE WriteRule
  <2>1. writing \in Proposal /\ body[writing] # "none"
    BY <1>3 DEF WriteRule, Untouched, TypeOK
  <2>2. \A p \in Proposal : body'[p] = "none" => body[p] = "none" /\ age'[p] = age[p]
    BY <1>1, <1>3, <2>1 DEF WriteRule, TypeOK
  <2> QED
    BY <1>3, <2>2 DEF WriteRule, Untouched, dirs, history
<1>4. ASSUME NEW r \in Reviewer, Rename(r) \/ RemoveFile(r) PROVE Untouched'
  <2>1. rev[r].file \in Proposal /\ rev[r].file \in pending
    BY <1>4 DEF Rename, RemoveFile, TypeOK
  <2>2. \A p \in Proposal : p # rev[r].file => decisions'[p] = decisions[p]
    BY <1>4, <2>1 DEF Rename, RemoveFile, Succeeds, TypeOK
  <2>3. /\ pending' \cup approved' \subseteq pending \cup approved
        /\ UNCHANGED <<body, age, proposedFor, writing, reaped>>
    BY <1>4 DEF Rename, RemoveFile, CallEnds, files
  <2>4. body[rev[r].file] # "none"
    BY <2>1 DEF Untouched
  <2> QED
    BY <2>2, <2>3, <2>4 DEF Untouched
<1>5. ASSUME NEW r \in Reviewer,
             \/ \E p \in Proposal : BeginApprove(r, p) \/ BeginReject(r, p)
             \/ CallFails(r)
      PROVE  Untouched'
  BY <1>5
  DEF BeginApprove, BeginReject, Exists, CallFails, CallEnds, Untouched, dirs, files, history
<1>6. CASE StartSweep \/ SweepStep
  BY <1>6
  DEF StartSweep, SweepStep, SkipOwn, Inspect, InspectFails, Reap, ReapFails, Continue,
      EndSweep, SweepTo, Untouched, files
<1>7. ASSUME NEW p \in Proposal, OperatorRemoves(p) PROVE Untouched'
  BY <1>7 DEF OperatorRemoves, Untouched, files, history
<1>8. CASE Tick
  BY <1>1, <1>8 DEF Tick, Untouched, dirs, history, TypeOK
<1>9. CASE UNCHANGED vars
  BY <1>9 DEF Untouched, vars
<1> QED
  BY <1>2, <1>3, <1>4, <1>5, <1>6, <1>7, <1>8, <1>9 DEF Next

LEMMA StepDecided == TypeOK /\ Untouched /\ Decided /\ [Next]_vars => Decided'
<1> SUFFICES ASSUME TypeOK, Untouched, Decided, [Next]_vars PROVE Decided'
  OBVIOUS
<1>1. ASSUME NEW p \in Proposal, StagePending(p) \/ StageAuto(p) PROVE Decided'
  BY <1>1 DEF StagePending, StageAuto, Create, Untouched, Decided, history
<1>2. ASSUME NEW r \in Reviewer, Rename(r) PROVE Decided'
  <2> DEFINE f == rev[r].file
  <2>1. f \in Proposal /\ f \in pending /\ decisions[f] = {}
    BY <1>2 DEF Rename, TypeOK, Decided
  <2>2. /\ decisions'[f] = {<<r, "approve">>}
        /\ \A p \in Proposal : p # f => decisions'[p] = decisions[p]
    BY <1>2, <2>1 DEF Rename, Succeeds, TypeOK
  <2>3. /\ pending' = pending \ {f} /\ approved' = approved \cup {f} /\ reaped' = reaped
    BY <1>2 DEF Rename, CallEnds
  <2> QED
    BY <2>1, <2>2, <2>3 DEF Decided
<1>3. ASSUME NEW r \in Reviewer, RemoveFile(r) PROVE Decided'
  <2> DEFINE f == rev[r].file
  <2>1. f \in Proposal /\ f \in pending /\ decisions[f] = {}
    BY <1>3 DEF RemoveFile, TypeOK, Decided
  <2>2. /\ decisions'[f] = {<<r, "reject">>}
        /\ \A p \in Proposal : p # f => decisions'[p] = decisions[p]
    BY <1>3, <2>1 DEF RemoveFile, Succeeds, TypeOK
  <2>3. /\ pending' = pending \ {f} /\ UNCHANGED <<approved, reaped>>
    BY <1>3 DEF RemoveFile, CallEnds
  <2> QED
    BY <2>1, <2>2, <2>3 DEF Decided
<1>4. CASE Reap
  BY <1>4 DEF Reap, Continue, SweepTo, Decided
<1>5. ASSUME NEW p \in Proposal, OperatorRemoves(p) PROVE Decided'
  BY <1>5 DEF OperatorRemoves, Decided, history
<1>6. CASE UNCHANGED <<pending, approved, reaped, decisions>>
  BY <1>6 DEF Decided
<1>7. WriteRule \/ StartSweep \/ SkipOwn \/ Inspect \/ InspectFails \/ ReapFails
        \/ EndSweep \/ Tick
        \/ (\E r \in Reviewer : \/ \E p \in Proposal : BeginApprove(r, p) \/ BeginReject(r, p)
                                \/ CallFails(r))
        \/ UNCHANGED vars
      => UNCHANGED <<pending, approved, reaped, decisions>>
  BY DEF WriteRule, StartSweep, SkipOwn, Inspect, InspectFails, ReapFails, Continue, EndSweep,
         SweepTo, Tick, BeginApprove, BeginReject, Exists, CallFails, CallEnds, vars, dirs, history
<1> QED
  BY <1>1, <1>2, <1>3, <1>4, <1>5, <1>6, <1>7 DEF Next, SweepStep

LEMMA DecidedSuffices == Decided => OneDecision /\ DecisionsHold
<1> SUFFICES ASSUME Decided PROVE OneDecision /\ DecisionsHold
  OBVIOUS
<1>1. ASSUME NEW p \in Proposal PROVE Cardinality(decisions[p]) <= 1
  <2>1. CASE decisions[p] = {}
    <3>1. Cardinality(decisions[p]) = 0
      BY <2>1, FS_EmptySet
    <3> QED
      BY <3>1
  <2>2. ASSUME NEW d, decisions[p] = {d} PROVE Cardinality(decisions[p]) <= 1
    <3>1. Cardinality({d}) = 1
      BY FS_Singleton
    <3> QED
      BY <2>2, <3>1
  <2> QED
    BY <2>1, <2>2 DEF Decided
<1>2. DecisionsHold
  BY DEF Decided, DecisionsHold
<1> QED
  BY <1>1, <1>2 DEF OneDecision

LEMMA DecidedAlways == Spec => [](TypeOK /\ Untouched /\ Decided)
<1>1. Init => TypeOK /\ Untouched /\ Decided
  BY InitTypeOK, InitDecided
<1>2. TypeOK /\ Untouched /\ Decided /\ [Next]_vars => TypeOK' /\ Untouched' /\ Decided'
  BY StepTypeOK, StepUntouched, StepDecided
<1> QED
  BY <1>1, <1>2, PTL DEF Spec

\* However many reviewers act at once, on listings of any age: one of them at
\* most is told that its decision about a proposal was carried out
\* (approval.rs:99-121).
THEOREM AtMostOneDecision == Spec => []OneDecision
BY DecidedAlways, DecidedSuffices, PTL

\* A rejected proposal is in neither directory from then on, an approved one not
\* in pending_dir (approval.rs:99-121).
THEOREM DirectoriesShowDecisions == Spec => []DecisionsHold
BY DecidedAlways, DecidedSuffices, PTL

-----------------------------------------------------------------------------
(***************************************************************************)
(* The refinement of ProposalLifecycle.  The reaper decides with ages from *)
(* the beginning of its sweep: what has expired then is Ttl old, since a   *)
(* file is never older than the proposal in it, and stays so.              *)
(***************************************************************************)
Aged ==
  /\ \A p \in Proposal : age[p] <= proposedFor[p]
  /\ \A p \in Proposal : p \in sweep.expired => proposedFor[p] = Ttl /\ body[p] # "none"
  /\ sweep.at = "remove" => proposedFor[sweep.file] = Ttl /\ body[sweep.file] # "none"

LEMMA InitAged == Init => Aged
BY ApprovalAssumption DEF Init, Aged, Asleep, Name

LEMMA OlderMonotone ==
  ASSUME NEW m \in 0..Ttl, NEW n \in 0..Ttl, m <= n
  PROVE  Older(m) <= Older(n) /\ Older(Ttl) = Ttl
BY ApprovalAssumption DEF Older

LEMMA StepAged == TypeOK /\ Untouched /\ Aged /\ [Next]_vars => Aged'
<1> SUFFICES ASSUME TypeOK, Untouched, Aged, [Next]_vars PROVE Aged'
  OBVIOUS
<1>1. Proposal \subseteq Name /\ None \notin Name /\ Ttl \in Nat
  BY ApprovalAssumption DEF Name
<1>2. ASSUME NEW p \in Proposal, StagePending(p) \/ StageAuto(p) PROVE Aged'
  <2>1. MayList(p)
    BY <1>2 DEF StagePending, StageAuto, MayList
  <2>2. sweep'.at = sweep.at /\ sweep'.expired = sweep.expired /\ sweep'.file = sweep.file
    BY <2>1, ListedType
  <2> QED
    BY <1>1, <1>2, <2>2 DEF StagePending, StageAuto, Create, Aged, TypeOK
<1>3. CASE WriteRule
  <2>1. writing \in Proposal /\ body[writing] # "none"
    BY <1>3 DEF WriteRule, Untouched, TypeOK
  <2>2. \A p \in Proposal : body[p] # "none" => body'[p] # "none"
    BY <1>1, <1>3, <2>1 DEF WriteRule, TypeOK
  <2>3. ASSUME NEW p \in Proposal PROVE age'[p] <= proposedFor[p]
    <3>1. proposedFor[p] \in Nat /\ age'[p] = IF p = writing THEN 0 ELSE age[p]
      BY <1>1, <1>3, <2>1 DEF WriteRule, TypeOK
    <3> QED
      BY <3>1 DEF Aged
  <2>4. /\ proposedFor' = proposedFor /\ sweep'.expired \subseteq sweep.expired
        /\ sweep'.at = sweep.at /\ sweep'.file = sweep.file
        /\ sweep.at = "remove" => sweep.file \in Proposal
    BY <1>3 DEF WriteRule, TypeOK
  <2> QED
    BY <2>2, <2>3, <2>4 DEF Aged
<1>4. ASSUME NEW r \in Reviewer,
             \/ \E p \in Proposal : BeginApprove(r, p) \/ BeginReject(r, p)
             \/ RemoveFile(r) \/ CallFails(r)
      PROVE  Aged'
  BY <1>4 DEF BeginApprove, BeginReject, Exists, RemoveFile, CallFails, CallEnds, Aged, files
<1>10. ASSUME NEW r \in Reviewer, Rename(r) PROVE Aged'
  <2>1. rev[r].file \in Proposal /\ MayList(rev[r].file)
    BY <1>10 DEF Rename, TypeOK
  <2>2. sweep'.at = sweep.at /\ sweep'.expired = sweep.expired /\ sweep'.file = sweep.file
    BY <2>1, ListedType
  <2> QED
    BY <1>10, <2>2 DEF Rename, CallEnds, Aged, files
<1>5. CASE StartSweep
  <2>1. \A p \in Proposal : age[p] >= Ttl => proposedFor[p] = Ttl
    BY <1>1 DEF Aged, TypeOK
  <2> QED
    BY <1>5, <2>1 DEF StartSweep, SweepTo, Aged, files
<1>6. CASE SweepStep
  <2>1. UNCHANGED <<age, body, proposedFor>>
    BY <1>6
    DEF SweepStep, SkipOwn, Inspect, InspectFails, Reap, ReapFails, Continue, EndSweep,
        SweepTo, files
  <2>2. CASE SkipOwn
    BY <2>1, <2>2 DEF SkipOwn, SweepTo, Aged, TypeOK
  <2>3. CASE Inspect
    <3>1. PICK f \in Proposal :
            SweepTo(IF f \in sweep.expired
                    THEN [sweep EXCEPT !.at = "remove", !.file = f]
                    ELSE [sweep EXCEPT !.todo = @ \ {f}])
      BY <2>3 DEF Inspect
    <3>2. sweep'.expired = sweep.expired /\ (sweep'.at = "remove" =>
             \/ f \in sweep.expired /\ sweep'.file = f
             \/ sweep.at = "remove" /\ sweep'.file = sweep.file)
      BY <3>1 DEF SweepTo, TypeOK
    <3> QED
      BY <2>1, <3>2 DEF Aged
  <2>4. CASE InspectFails \/ EndSweep
    BY <2>1, <2>4 DEF InspectFails, EndSweep, SweepTo, Asleep, Aged, TypeOK
  <2>5. CASE Reap \/ ReapFails
    BY <2>1, <2>5 DEF Reap, ReapFails, Continue, SweepTo, Aged, TypeOK
  <2> QED
    BY <1>6, <2>2, <2>3, <2>4, <2>5 DEF SweepStep
<1>7. ASSUME NEW p \in Proposal, OperatorRemoves(p) PROVE Aged'
  BY <1>7 DEF OperatorRemoves, Aged, files
<1>8. CASE Tick
  <2>1. ASSUME NEW p \in Proposal PROVE age'[p] <= proposedFor'[p]
    BY <1>1, <1>8, <2>1, OlderMonotone DEF Tick, TypeOK, Aged, Untouched
  <2>2. ASSUME NEW p \in Proposal, proposedFor[p] = Ttl, body[p] # "none"
        PROVE  proposedFor'[p] = Ttl /\ body'[p] # "none"
    BY <1>1, <1>8, <2>2 DEF Tick, Older
  <2> QED
    BY <1>8, <2>1, <2>2 DEF Tick, Aged, TypeOK
<1>9. CASE UNCHANGED vars
  BY <1>9 DEF Aged, vars
<1> QED
  BY <1>2, <1>3, <1>4, <1>5, <1>6, <1>7, <1>8, <1>9, <1>10 DEF Next

LEMMA InitLifecycle == Init => L!Init
<1> SUFFICES ASSUME Init PROVE L!Init
  OBVIOUS
<1>1. \A p \in Proposal : Status(p) = "new"
  BY ApprovalAssumption DEF Init, Status, Name
<1> QED
  BY <1>1 DEF Init, L!Init

\* A step that gives one proposal another status, and no time.
LEMMA BecomesIf ==
  ASSUME NEW p \in Proposal, NEW s, Status(p)' = s, UNCHANGED proposedFor,
         \A q \in Proposal : q # p => Status(q)' = Status(q)
  PROVE  L!Becomes(p, s)
BY DEF L!Becomes

\* A step that only concerns what no proposal's status depends on.
LEMMA StatusKept ==
  ASSUME UNCHANGED <<pending, approved, reaped, proposedFor>>,
         \A p \in Proposal : body[p] = "none" <=> body'[p] = "none"
  PROVE  UNCHANGED L!lifecycleVars
<1>1. \A p \in Proposal : Status(p)' = Status(p)
  BY DEF Status
<1> QED
  BY <1>1 DEF L!lifecycleVars

LEMMA StepLifecycle ==
  TypeOK /\ Untouched /\ Decided /\ Aged /\ [Next]_vars => [L!Next]_(L!lifecycleVars)
<1> SUFFICES ASSUME TypeOK, Untouched, Decided, Aged, [Next]_vars
             PROVE  [L!Next]_(L!lifecycleVars)
  OBVIOUS
<1>1. Proposal \subseteq Name /\ None \notin Name
  BY ApprovalAssumption DEF Name
<1>2. ASSUME NEW p \in Proposal, StagePending(p) PROVE L!Propose(p)
  <2>1. Status(p) = "new" /\ Status(p)' = "pending"
    BY <1>2 DEF StagePending, Create, Status, Untouched
  <2>2. \A q \in Proposal : q # p => Status(q)' = Status(q)
    BY <1>1, <1>2 DEF StagePending, Create, Status, TypeOK, history
  <2> QED
    BY <1>2, <2>1, <2>2, BecomesIf DEF StagePending, Create, L!Propose
<1>3. ASSUME NEW p \in Proposal, StageAuto(p) PROVE L!AutoApprove(p)
  <2>1. Status(p) = "new" /\ Status(p)' = "approved"
    BY <1>3 DEF StageAuto, Create, Status, Untouched
  <2>2. \A q \in Proposal : q # p => Status(q)' = Status(q)
    BY <1>1, <1>3 DEF StageAuto, Create, Status, TypeOK, history
  <2> QED
    BY <1>3, <2>1, <2>2, BecomesIf DEF StageAuto, Create, L!AutoApprove
<1>4. CASE WriteRule
  <2>1. writing \in Proposal /\ body[writing] # "none"
    BY <1>4 DEF WriteRule, Untouched, TypeOK
  <2>2. \A p \in Proposal : body[p] = "none" <=> body'[p] = "none"
    BY <1>1, <1>4, <2>1 DEF WriteRule, TypeOK
  <2> QED
    BY <1>4, <2>2, StatusKept DEF WriteRule, dirs, history
<1>5. ASSUME NEW r \in Reviewer, Rename(r) PROVE \E p \in Proposal : L!Approve(p)
  <2>1. PICK f \in Proposal :
          /\ f \in pending /\ pending' = pending \ {f} /\ approved' = approved \cup {f}
          /\ UNCHANGED <<reaped, body, proposedFor>>
    BY <1>5 DEF Rename, CallEnds, TypeOK, files
  <2>2. Status(f) = "pending" /\ Status(f)' = "approved"
    BY <2>1 DEF Status
  <2>3. \A q \in Proposal : q # f => Status(q)' = Status(q)
    BY <2>1 DEF Status
  <2> QED
    BY <2>1, <2>2, <2>3, BecomesIf DEF L!Approve
<1>6. ASSUME NEW r \in Reviewer, RemoveFile(r) PROVE \E p \in Proposal : L!Reject(p)
  <2>1. PICK f \in Proposal :
          /\ f \in pending /\ pending' = pending \ {f}
          /\ UNCHANGED <<approved, reaped, body, proposedFor>>
    BY <1>6 DEF RemoveFile, CallEnds, TypeOK, files
  <2>2. Status(f) = "pending" /\ Status(f)' = "closed"
    BY <2>1 DEF Status, Decided, Untouched
  <2>3. \A q \in Proposal : q # f => Status(q)' = Status(q)
    BY <2>1 DEF Status
  <2> QED
    BY <2>1, <2>2, <2>3, BecomesIf DEF L!Reject
<1>7. CASE Reap
  <2>1. PICK f \in Proposal :
          /\ proposedFor[f] = Ttl
          /\ approved' = approved \ {f} /\ reaped' = reaped \cup (approved \cap {f})
          /\ UNCHANGED <<pending, body, proposedFor>>
    BY <1>1, <1>7 DEF Reap, Continue, SweepTo, TypeOK, Aged, files
  <2>2. \A q \in Proposal : q # f => Status(q)' = Status(q)
    BY <2>1 DEF Status
  <2>3. CASE f \in approved
    <3>1. Status(f) = "approved" /\ Status(f)' = "expired"
      BY <2>1, <2>3 DEF Status, Decided
    <3>2. L!Expire(f)
      BY <2>1, <2>2, <3>1, BecomesIf DEF L!Expire
    <3> QED
      BY <2>1, <3>2 DEF L!Next
  <2>4. CASE f \notin approved
    BY <2>1, <2>4, StatusKept
  <2> QED
    BY <2>3, <2>4
<1>8. ASSUME NEW p \in Proposal, OperatorRemoves(p) PROVE L!Withdraw(p)
  <2>1. /\ p \in approved /\ approved' = approved \ {p}
        /\ UNCHANGED <<pending, reaped, body, proposedFor>>
    BY <1>8 DEF OperatorRemoves, files, history
  <2>2. Status(p) = "approved" /\ Status(p)' = "closed"
    BY <2>1 DEF Status, Decided, Untouched
  <2>3. \A q \in Proposal : q # p => Status(q)' = Status(q)
    BY <2>1 DEF Status
  <2> QED
    BY <2>1, <2>2, <2>3, BecomesIf DEF L!Withdraw
<1>9. CASE Tick
  <2>1. \A p \in Proposal : Status(p)' = Status(p) /\ (Status(p) = "new" <=> body[p] = "none")
    BY <1>9 DEF Tick, Status, Untouched, dirs, history
  <2>2. \A p \in Proposal :
          proposedFor'[p] = IF Status(p) # "new" /\ proposedFor[p] < Ttl
                            THEN proposedFor[p] + 1 ELSE proposedFor[p]
    BY <1>9, <2>1 DEF Tick, Older, Untouched
  <2>3. proposedFor' = [p \in Proposal |-> proposedFor'[p]]
    BY <1>9 DEF Tick
  <2>4. L!Tick
    BY <2>1, <2>2, <2>3 DEF L!Tick
  <2> QED
    BY <2>4 DEF L!Next
<1>10. CASE UNCHANGED <<pending, approved, reaped, proposedFor, body>>
  BY <1>10, StatusKept
<1>11. StartSweep \/ SkipOwn \/ Inspect \/ InspectFails \/ ReapFails \/ EndSweep
         \/ (\E r \in Reviewer : \/ \E p \in Proposal : BeginApprove(r, p) \/ BeginReject(r, p)
                                 \/ CallFails(r))
         \/ UNCHANGED vars
       => UNCHANGED <<pending, approved, reaped, proposedFor, body>>
  BY DEF StartSweep, SkipOwn, Inspect, InspectFails, ReapFails, Continue, EndSweep, SweepTo,
         BeginApprove, BeginReject, Exists, CallFails, CallEnds, vars, dirs, files, history
<1> QED
  BY <1>2, <1>3, <1>4, <1>5, <1>6, <1>7, <1>8, <1>9, <1>10, <1>11
  DEF Next, SweepStep, L!Next

\* Whatever reviewers, reaper, advisor and operator do at once, a proposal lives as
\* ProposalLifecycle says: in particular the reaper removes no rule before it is
\* Ttl old (approval.rs:125-153).
THEOREM ImplementsLifecycle == Spec => FollowsLifecycle
<1>1. Init => TypeOK /\ Untouched /\ Decided /\ Aged /\ L!Init
  BY InitTypeOK, InitDecided, InitAged, InitLifecycle
<1>2. TypeOK /\ Untouched /\ Decided /\ Aged /\ [Next]_vars
        => TypeOK' /\ Untouched' /\ Decided' /\ Aged' /\ [L!Next]_(L!lifecycleVars)
  BY StepTypeOK, StepUntouched, StepDecided, StepAged, StepLifecycle
<1> QED
  BY <1>1, <1>2, PTL DEF Spec, FollowsLifecycle, L!Spec

=============================================================================

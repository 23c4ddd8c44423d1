--------------------------- MODULE BurnPublishProofs ---------------------------
(***************************************************************************)
(* Theorems about BurnPublish, for every setup and any number of attempts, *)
(* human commits and deaths: one inductive invariant in five parts, what   *)
(* it needs of each action, then the properties.                           *)
(***************************************************************************)
EXTENDS BurnPublish, FiniteSetTheorems, TLAPS

USE DEF refVars, driverVars, Branches, Attempts, Commits, Outcomes

(***************************************************************************)
(* The inductive invariant.                                                *)
(***************************************************************************)
\* The attempt in hand is undecided, and its history ends in it.
AttemptInv ==
    /\ pc # "idle" => attempt \in Attempts /\ attempt \in sha /\ outcome[attempt] = "none"
    /\ pc \in {"clone", "detach", "refresh", "bring"} => setup = "mirror"

\* The clone's branch is behind the remote's where the ancestry is asked of it.
CopyInv == setup = "mirror" /\ pc \in {"bring", "check"} => copy \subseteq remote["base"]

\* What the ancestry check saw is in the attempt, when the ref is moved to it.
SeenInv == pc = "move" => seen \subseteq sha

\* Beyond what is merged, an attempt and the shared branch, here and on the remote,
\* hold one attempt at most.
Unmerged(history) == (history \cap Attempts) \ remote["base"]
AtMostOne(S) == \A m, n \in S : m = n

MergedInv ==
    setup = "shared" =>
        /\ pc # "idle" => sha \subseteq remote["base"] \cup {attempt}
        /\ AtMostOne(Unmerged(repo["burn"])) /\ AtMostOne(Unmerged(remote["burn"]))

\* What was reported published is on the branch and was there when the ancestry was
\* checked.
Good == {n \in Attempts : outcome[n] \in {"published", "unpushed"}}

ReportedInv ==
    setup # "mirror" =>
        /\ Good \subseteq repo[Target]
        /\ pc = "move" => Good \subseteq seen
        /\ pc = "push" => attempt \in repo[Target]

PublishInv ==
    /\ TypeOK /\ AttemptInv /\ CopyInv /\ SeenInv /\ MergedInv /\ ReportedInv
    /\ RefusedForCause

(***************************************************************************)
(* Types.                                                                  *)
(***************************************************************************)
\* Human commits are numbered within their bound.
LEMMA HumanCommit ==
  ASSUME humans \in 0 .. MaxHuman, humans < MaxHuman
  PROVE  humans + 1 \in 0 .. MaxHuman /\ - (humans + 1) \in Commits \ Attempts
  BY BoundsAssumption

\* Where the base branch is when an attempt is cut from it.
LEMMA CutType ==
  ASSUME TypeOK, Cut
  PROVE  /\ attempt' = attempt + 1 /\ attempt' \in Attempts /\ attempt' \in 0 .. MaxAttempts
         /\ BaseRef \subseteq Commits /\ sha' = BaseRef \cup {attempt'}
         /\ outcome[attempt'] = "none"
  BY BoundsAssumption DEF TypeOK, Cut, BaseRef

\* What is published to, and the ends of a publish.
LEMMA RefType == TypeOK => Target \in Branches /\ Ref \subseteq Commits
  BY DEF TypeOK, Target, Ref

LEMMA EndsType ==
  ASSUME TypeOK, NEW how \in Outcomes, Ends(how)
  PROVE  /\ pc' = "idle" /\ attempt' = attempt /\ sha' = sha
         /\ outcome' \in [Attempts -> Outcomes]
         /\ \A n \in Attempts : n > attempt => outcome'[n] = "none"
<1>1. /\ pc' = "idle" /\ attempt' = attempt /\ sha' = sha
      /\ outcome' = [outcome EXCEPT ![attempt] = how]
      /\ outcome \in [Attempts -> Outcomes] /\ attempt \in Int
      /\ \A n \in Attempts : n > attempt => outcome[n] = "none"
  BY BoundsAssumption DEF TypeOK, Ends
<1>2. \A n \in Attempts : n > attempt => n # attempt
  BY <1>1, BoundsAssumption
<1> QED
  BY <1>1, <1>2

LEMMA TypeInit == Init => TypeOK
  BY BoundsAssumption DEF Init, TypeOK

LEMMA TypeStep == TypeOK /\ [Next]_vars => TypeOK'
<1> SUFFICES ASSUME TypeOK, [Next]_vars PROVE TypeOK'
  OBVIOUS
<1> USE DEF TypeOK, Goes
<1>1. CASE Cut
  <2>1. sha' \subseteq Commits
    BY <1>1, CutType
  <2> QED
    BY <1>1, <2>1, CutType DEF Cut
<1>2. CASE EnsureClone
  BY <1>2 DEF EnsureClone
<1>3. CASE Detach
  BY <1>3 DEF Detach
<1>4. CASE Refresh
  BY <1>4, EndsType, RefType DEF Refresh
<1>5. CASE Bring
  BY <1>5, EndsType, RefType DEF Bring
<1>6. CASE Check
  BY <1>6, EndsType, RefType DEF Check
<1>7. CASE Move
  BY <1>7, EndsType, RefType DEF Move
<1>8. CASE Push
  BY <1>8, EndsType, RefType DEF Push
<1>9. CASE Die
  BY <1>9, BoundsAssumption DEF Die
<1>10. ASSUME NEW b \in Branches, PushElsewhere(b)
       PROVE  TypeOK'
  BY <1>10, HumanCommit DEF PushElsewhere
<1>11. ASSUME NEW b \in Branches \cup {"other"}, Checkout(b)
       PROVE  TypeOK'
  BY <1>11 DEF Checkout
<1>12. CASE MergeShared
  BY <1>12 DEF MergeShared
<1>13. CASE CommitHere
  BY <1>13, HumanCommit DEF CommitHere
<1>14. CASE Pull
  BY <1>14 DEF Pull
<1>15. CASE UNCHANGED vars
  BY <1>15 DEF vars
<1> QED
  BY <1>1, <1>2, <1>3, <1>4, <1>5, <1>6, <1>7, <1>8, <1>9, <1>10, <1>11, <1>12, <1>13, <1>14,
     <1>15 DEF Next, Driver, Human

\* Every reachable state is well typed: what a branch holds are attempts that were
\* cut and commits that humans made.
THEOREM TypeTheorem == Spec => []TypeOK
  BY TypeInit, TypeStep, PTL DEF Spec

(***************************************************************************)
(* What a step may do to the branches.                                     *)
(***************************************************************************)
\* The strategy in use does not change, and only Move and humans write the
\* repository.
LEMMA SetupStep ==
  ASSUME [Next]_vars
  PROVE  /\ setup' = setup /\ Target' = Target
         /\ UNCHANGED repo \/ Move \/ CommitHere \/ Pull
  BY DEF Next, Driver, Human, Cut, EnsureClone, Detach, Refresh, Bring, Check, Move, Push, Die,
         PushElsewhere, Checkout, MergeShared, CommitHere, Pull, vars, Target

\* Only the pushes write the remote.
LEMMA PushStep ==
  [Next]_vars => UNCHANGED remote \/ Push \/ MergeShared \/ \E b \in Branches : PushElsewhere(b)
  BY DEF Next, Driver, Human, Cut, EnsureClone, Detach, Refresh, Bring, Check, Move, Push, Die,
         PushElsewhere, Checkout, MergeShared, CommitHere, Pull, vars

\* A push that is not a fast-forward is refused.
LEMMA RemoteStep ==
  ASSUME TypeOK, [Next]_vars, NEW b \in Branches
  PROVE  remote[b] \subseteq remote'[b]
<1>1. CASE Push
  BY <1>1 DEF Push, TypeOK, Target
<1>2. CASE MergeShared
  BY <1>2 DEF MergeShared, TypeOK
<1>3. ASSUME NEW c \in Branches, PushElsewhere(c)
      PROVE  remote[b] \subseteq remote'[b]
  BY <1>3 DEF PushElsewhere, TypeOK
<1> QED
  BY <1>1, <1>2, <1>3, PushStep

\* RemoteForward holds of the strategy in every setup: nothing is taken off a branch
\* of the remote.
THEOREM ForwardTheorem == Spec => RemoteForward
<1>1. TypeOK /\ [Next]_vars => [\A b \in Branches : remote[b] \subseteq remote'[b]]_vars
  BY RemoteStep
<1> QED
  BY <1>1, TypeTheorem, PTL DEF Spec, RemoteForward

\* The repository's branches grow, except where Move sets the one published to.
LEMMA RepoStep ==
  ASSUME TypeOK, [Next]_vars, ~ Move, NEW b \in Branches
  PROVE  /\ repo[b] \subseteq repo'[b]
         /\ repo'[b] \cap Attempts = repo[b] \cap Attempts \/ repo'[b] = remote[b]
<1>1. CASE CommitHere
  BY <1>1, HumanCommit DEF CommitHere, TypeOK
<1>2. CASE Pull
  BY <1>2 DEF Pull, TypeOK
<1> QED
  BY <1>1, <1>2, SetupStep

(***************************************************************************)
(* The driver's way through publish.                                       *)
(***************************************************************************)
Way == {<<"clone", "detach">>, <<"clone", "refresh">>, <<"detach", "refresh">>,
        <<"refresh", "bring">>, <<"bring", "check">>, <<"check", "move">>, <<"move", "push">>}

\* An attempt is cut, or goes on, or ends.
LEMMA WayStep ==
  [Next]_vars => \/ Cut
                 \/ /\ attempt' = attempt /\ sha' = sha
                    /\ pc' = "idle" \/ (outcome' = outcome /\ (pc' = pc \/ <<pc, pc'>> \in Way))
  BY DEF Next, Driver, Human, Cut, EnsureClone, Detach, Refresh, Bring, Check, Move, Push, Die,
         PushElsewhere, Checkout, MergeShared, CommitHere, Pull, vars, Goes, Ends, Way

\* Where the clone, its branch and what the check saw are written.
LEMMA CopyStep ==
  [Next]_vars => /\ clone' = clone \/ EnsureClone \/ Detach
                 /\ copy' = copy \/ EnsureClone \/ Refresh \/ Move
                 /\ seen' = seen \/ Cut \/ Check
  BY DEF Next, Driver, Human, Cut, EnsureClone, Detach, Refresh, Bring, Check, Move, Push, Die,
         PushElsewhere, Checkout, MergeShared, CommitHere, Pull, vars

\* Which actions decide an attempt, and how.
LEMMA OutcomeStep ==
  [Next]_vars => \/ outcome' = outcome
                 \/ Refresh /\ (Ends("unfetched") \/ (clone = "attached" /\ Ends("refused")))
                 \/ Bring /\ Ends("unfetched")
                 \/ Check /\ ~ Ref \subseteq sha /\ Ends("refused")
                 \/ Move /\ setup # "mirror" /\ (Ends("refused") \/ Ends("unpushed"))
                 \/ Push /\ (Ends("published") \/ Ends("unpushed"))
  BY DEF Next, Driver, Human, Cut, EnsureClone, Detach, Refresh, Bring, Check, Move, Push, Die,
         PushElsewhere, Checkout, MergeShared, CommitHere, Pull, vars, Goes

(***************************************************************************)
(* The invariant is inductive.                                             *)
(***************************************************************************)
LEMMA AttemptPreserved == TypeOK /\ AttemptInv /\ [Next]_vars => AttemptInv'
<1> SUFFICES ASSUME TypeOK, AttemptInv, [Next]_vars PROVE AttemptInv'
  OBVIOUS
<1>1. CASE Cut
  <2>1. /\ attempt' \in Attempts /\ attempt' \in sha' /\ outcome[attempt'] = "none"
    BY <1>1, CutType
  <2> QED
    BY <1>1, <2>1 DEF Cut, AttemptInv
<1>2. CASE ~ Cut /\ pc' # "idle"
  <2>1. /\ attempt' = attempt /\ sha' = sha /\ outcome' = outcome
        /\ pc' = pc \/ <<pc, pc'>> \in Way
    BY <1>2, WayStep
  <2> QED
    BY <1>2, <2>1, SetupStep DEF AttemptInv, Way
<1>3. CASE pc' = "idle"
  BY <1>3 DEF AttemptInv
<1> QED
  BY <1>1, <1>2, <1>3

LEMMA CopyPreserved == TypeOK /\ CopyInv /\ [Next]_vars => CopyInv'
<1> SUFFICES ASSUME TypeOK, CopyInv, [Next]_vars, setup' = "mirror", pc' \in {"bring", "check"}
             PROVE  copy' \subseteq remote'["base"]
  BY DEF CopyInv
<1>1. remote["base"] \subseteq remote'["base"] /\ setup = "mirror"
  BY RemoteStep, SetupStep
<1>2. CASE Refresh
  BY <1>1, <1>2 DEF Refresh, Ends
<1>3. CASE ~ Refresh
  <2>1. ~ Cut /\ ~ EnsureClone /\ ~ Move
    BY <1>1 DEF Cut, EnsureClone, Move, Goes, Ends
  <2>2. pc \in {"bring", "check", "refresh"} /\ copy' = copy
    BY <1>3, <2>1, WayStep, CopyStep DEF Way
  <2>3. pc # "refresh"
    BY <1>3, <2>2 DEF Next, Driver, Human, Cut, EnsureClone, Detach, Refresh, Bring, Check, Move,
                      Push, Die, PushElsewhere, Checkout, MergeShared, CommitHere, Pull, vars
  <2> QED
    BY <1>1, <2>2, <2>3 DEF CopyInv
<1> QED
  BY <1>2, <1>3

\* Entering the move is passing the ancestry check.
LEMMA MoveStep ==
  [Next]_vars /\ pc' = "move" =>
    \/ Check /\ Ref \subseteq sha /\ seen' = Ref /\ sha' = sha /\ outcome' = outcome
    \/ pc = "move" /\ seen' = seen /\ sha' = sha /\ outcome' = outcome
  BY DEF Next, Driver, Human, Cut, EnsureClone, Detach, Refresh, Bring, Check, Move, Push, Die,
         PushElsewhere, Checkout, MergeShared, CommitHere, Pull, vars, Goes, Ends

LEMMA SeenPreserved == SeenInv /\ [Next]_vars => SeenInv'
  BY MoveStep DEF SeenInv

LEMMA MergedPreserved ==
  TypeOK /\ AttemptInv /\ MergedInv /\ [Next]_vars => MergedInv'
<1> SUFFICES ASSUME TypeOK, AttemptInv, MergedInv, [Next]_vars, setup' = "shared"
             PROVE  /\ pc' # "idle" => sha' \subseteq remote'["base"] \cup {attempt'}
                    /\ AtMostOne(Unmerged(repo["burn"])')
                    /\ AtMostOne(Unmerged(remote["burn"])')
  BY DEF MergedInv
<1>1. /\ setup = "shared" /\ Target = "burn" /\ Ref = repo["burn"] /\ BaseRef = remote["base"]
      /\ remote["base"] \subseteq remote'["base"]
      /\ AtMostOne(Unmerged(repo["burn"])) /\ AtMostOne(Unmerged(remote["burn"]))
  BY SetupStep, RemoteStep DEF Target, Ref, BaseRef, MergedInv
<1>2. ASSUME pc' # "idle"
      PROVE  sha' \subseteq remote'["base"] \cup {attempt'}
  <2>1. CASE Cut
    BY <1>1, <2>1, CutType
  <2>2. CASE ~ Cut
    <3>1. attempt' = attempt /\ sha' = sha /\ pc # "idle"
      BY <1>2, <2>2, WayStep DEF Way
    <3> QED
      BY <1>1, <3>1 DEF MergedInv
  <2> QED
    BY <2>1, <2>2
<1>3. AtMostOne(Unmerged(repo["burn"])')
  <2>1. CASE Move
    <3>1. repo'["burn"] = repo["burn"] \/ repo'["burn"] = sha
      BY <1>1, <2>1 DEF Move, TypeOK
    <3>2. sha \subseteq remote["base"] \cup {attempt}
      BY <1>1, <2>1 DEF Move, MergedInv
    <3> QED
      BY <1>1, <3>1, <3>2 DEF Unmerged, AtMostOne
  <2>2. CASE ~ Move
    <3>1. repo'["burn"] \cap Attempts = repo["burn"] \cap Attempts
          \/ repo'["burn"] = remote["burn"]
      BY <2>2, RepoStep
    <3> QED
      BY <1>1, <3>1 DEF Unmerged, AtMostOne
  <2> QED
    BY <2>1, <2>2
<1>4. AtMostOne(Unmerged(remote["burn"])')
  <2>1. CASE Push
    <3>1. remote'["burn"] = remote["burn"] \/ remote'["burn"] = repo["burn"]
      BY <1>1, <2>1 DEF Push, TypeOK
    <3> QED
      BY <1>1, <3>1 DEF Unmerged, AtMostOne
  <2>2. CASE ~ Push
    <3>1. remote'["burn"] \cap Attempts = remote["burn"] \cap Attempts
      <4>1. CASE MergeShared
        BY <4>1 DEF MergeShared, TypeOK
      <4>2. ASSUME NEW b \in Branches, PushElsewhere(b)
            PROVE  remote'["burn"] \cap Attempts = remote["burn"] \cap Attempts
        BY <4>2, HumanCommit DEF PushElsewhere, TypeOK
      <4> QED
        BY <2>2, <4>1, <4>2, PushStep
    <3> QED
      BY <1>1, <3>1 DEF Unmerged, AtMostOne
  <2> QED
    BY <2>1, <2>2
<1> QED
  BY <1>2, <1>3, <1>4

\* Good grows by the attempt in hand, at a move that ends there or at the push.
LEMMA GoodStep ==
  ASSUME TypeOK, [Next]_vars
  PROVE  \/ Good' = Good
         \/ Good' \subseteq Good
         \/ Good' \subseteq Good \cup {attempt} /\ setup # "mirror" /\ Move /\ Ends("unpushed")
         \/ Good' \subseteq Good \cup {attempt} /\ Push
<1>1. CASE outcome' = outcome
  BY <1>1 DEF Good
<1>2. ASSUME NEW how \in Outcomes, Ends(how)
      PROVE  /\ Good' \subseteq Good \cup {attempt}
             /\ how \notin {"published", "unpushed"} => Good' \subseteq Good
  BY <1>2 DEF Ends, Good, TypeOK
<1> QED
  BY <1>1, <1>2, OutcomeStep

\* A move that ends in a publication, or goes on to the push, has set the branch to
\* the attempt.
LEMMA MovedStep ==
  ASSUME TypeOK, AttemptInv, Move, setup # "mirror"
  PROVE  \/ repo'[Target] = sha
         \/ repo' = repo /\ Ends("refused")
  BY RefType DEF Move, TypeOK

LEMMA ReportedPreserved ==
  TypeOK /\ AttemptInv /\ SeenInv /\ ReportedInv /\ [Next]_vars => ReportedInv'
<1> SUFFICES ASSUME TypeOK, AttemptInv, SeenInv, ReportedInv, [Next]_vars, setup # "mirror"
             PROVE  /\ Good' \subseteq repo'[Target]
                    /\ pc' = "move" => Good' \subseteq seen'
                    /\ pc' = "push" => attempt' \in repo'[Target]
  BY SetupStep DEF ReportedInv
<1>1. Good \subseteq repo[Target] /\ Target \in Branches /\ Ref = repo[Target]
  BY RefType DEF ReportedInv, Ref
<1>2. Good' \subseteq repo'[Target]
  <2>1. CASE Move
    <3>1. Good \subseteq sha /\ attempt \in sha
      BY <2>1 DEF Move, ReportedInv, SeenInv, AttemptInv
    <3>2. CASE repo'[Target] = sha
      BY <2>1, <3>1, <3>2, GoodStep
    <3>3. CASE repo' = repo /\ Ends("refused")
      <4>1. Good' \subseteq Good
        BY <3>3 DEF Ends, Good, TypeOK
      <4> QED
        BY <1>1, <3>3, <4>1
    <3> QED
      BY <2>1, <3>2, <3>3, MovedStep
  <2>2. CASE Push
    <3>1. attempt \in repo[Target] /\ repo' = repo
      BY <2>2 DEF Push, ReportedInv
    <3> QED
      BY <1>1, <2>2, <3>1, GoodStep
  <2>3. CASE ~ Move /\ ~ Push
    BY <1>1, <2>3, GoodStep, RepoStep
  <2> QED
    BY <2>1, <2>2, <2>3
<1>3. ASSUME pc' = "move"
      PROVE  Good' \subseteq seen'
  BY <1>1, <1>3, MoveStep DEF Good, ReportedInv
<1>4. ASSUME pc' = "push"
      PROVE  attempt' \in repo'[Target]
  <2>1. CASE Move
    <3>1. repo'[Target] = sha /\ attempt' = attempt /\ attempt \in sha
      BY <1>4, <2>1, MovedStep DEF Ends, Move, Goes, AttemptInv
    <3> QED
      BY <3>1
  <2>2. CASE ~ Move
    <3>1. pc = "push" /\ attempt' = attempt
      BY <1>4, <2>2
      DEF Next, Driver, Human, Cut, EnsureClone, Detach, Refresh, Bring, Check, Push, Die,
          PushElsewhere, Checkout, MergeShared, CommitHere, Pull, vars, Goes, Ends
    <3> QED
      BY <1>1, <2>2, <3>1, RepoStep DEF ReportedInv
  <2> QED
    BY <2>1, <2>2
<1> QED
  BY <1>2, <1>3, <1>4

LEMMA RefusedPreserved ==
  TypeOK /\ AttemptInv /\ CopyInv /\ RefusedForCause /\ [Next]_vars => RefusedForCause'
<1> SUFFICES ASSUME TypeOK, AttemptInv, CopyInv, RefusedForCause, [Next]_vars,
                    setup = "mirror", attempt' > 0, outcome'[attempt'] = "refused"
             PROVE  ~ remote'["base"] \subseteq sha' \/ clone' = "attached"
  BY SetupStep DEF RefusedForCause
<1>1. ~ Cut
  BY CutType DEF Cut
<1>2. attempt' = attempt /\ sha' = sha /\ attempt \in Attempts
      /\ remote["base"] \subseteq remote'["base"]
  BY <1>1, WayStep, RemoteStep, BoundsAssumption DEF TypeOK
<1>3. CASE outcome[attempt] = "refused"
  <2>1. pc = "idle"
    BY <1>3 DEF AttemptInv
  <2>2. clone' = clone
    BY <2>1, CopyStep DEF EnsureClone, Detach
  <2> QED
    BY <1>2, <1>3, <2>2 DEF RefusedForCause
<1>4. CASE outcome[attempt] # "refused"
  <2>1. \/ Refresh /\ clone = "attached"
        \/ Check /\ ~ Ref \subseteq sha
    BY <1>2, <1>4, OutcomeStep DEF Ends, TypeOK
  <2>2. CASE Refresh /\ clone = "attached"
    BY <2>2 DEF Refresh
  <2>3. CASE Check /\ ~ Ref \subseteq sha
    BY <1>2, <2>3 DEF Check, Ref, CopyInv
  <2> QED
    BY <2>1, <2>2, <2>3
<1> QED
  BY <1>3, <1>4

LEMMA PublishInit == Init => PublishInv
  BY TypeInit
  DEF Init, PublishInv, AttemptInv, CopyInv, SeenInv, MergedInv, AtMostOne, Unmerged, ReportedInv,
      Good, RefusedForCause, Target

LEMMA PublishInvariant == Spec => []PublishInv
<1>1. PublishInv /\ [Next]_vars => PublishInv'
  BY TypeStep, AttemptPreserved, CopyPreserved, SeenPreserved, MergedPreserved,
     ReportedPreserved, RefusedPreserved DEF PublishInv
<1> QED
  BY <1>1, PublishInit, PTL DEF Spec

(***************************************************************************)
(* The theorems.                                                           *)
(***************************************************************************)
\* SeenIsKept holds of the strategy: moving the ref, with a merge or with branch -f,
\* discards nothing that the ancestry check had seen on the branch.
THEOREM SeenTheorem == Spec => SeenIsKept
<1>1. PublishInv /\ [Next]_vars => [seen \cap repo[Target] \subseteq repo'[Target]]_vars
  <2> SUFFICES ASSUME PublishInv, [Next]_vars
               PROVE  seen \cap repo[Target] \subseteq repo'[Target]
    OBVIOUS
  <2>1. Target \in Branches
    BY RefType DEF PublishInv
  <2>2. CASE Move
    <3>1. seen \subseteq sha
      BY <2>2 DEF PublishInv, SeenInv, Move
    <3>2. repo'[Target] \in {repo[Target], sha}
      BY <2>1, <2>2 DEF Move, PublishInv, TypeOK
    <3> QED
      BY <3>1, <3>2
  <2>3. CASE ~ Move
    BY <2>1, <2>3, RepoStep DEF PublishInv
  <2> QED
    BY <2>2, <2>3
<1> QED
  BY <1>1, PublishInvariant, PTL DEF Spec, SeenIsKept

\* RefusedForCause holds of the strategy: no publication that fails, and no death
\* once the clone is detached, makes a later attempt be refused.
THEOREM RefusedTheorem == Spec => []RefusedForCause
<1>1. PublishInv => RefusedForCause
  BY DEF PublishInv
<1> QED
  BY <1>1, PublishInvariant, PTL

\* OneUnmerged holds of the strategy, however many attempts there are: the shared
\* branch cannot pile up attempts, since each is cut from the base branch.
THEOREM UnmergedTheorem == Spec => []OneUnmerged
<1>1. PublishInv => OneUnmerged
  <2> SUFFICES ASSUME PublishInv, setup = "shared"
               PROVE  Cardinality(Unmerged(repo["burn"])) <= 1
    BY DEF OneUnmerged, Unmerged
  <2>1. AtMostOne(Unmerged(repo["burn"]))
    BY DEF PublishInv, MergedInv
  <2>2. CASE Unmerged(repo["burn"]) = {}
    BY <2>2, FS_EmptySet
  <2>3. ASSUME NEW n \in Unmerged(repo["burn"])
        PROVE  Cardinality(Unmerged(repo["burn"])) <= 1
    <3>1. Unmerged(repo["burn"]) = {n}
      BY <2>1, <2>3 DEF AtMostOne
    <3>2. Cardinality({n}) = 1
      BY FS_Singleton, Zenon
    <3> QED
      BY <3>1, <3>2
  <2> QED
    BY <2>2, <2>3
<1> QED
  BY <1>1, PublishInvariant, PTL

\* ReportedStays holds of the strategy without a clone: what publish() returned a
\* branch for is on that branch for good, whatever humans do there meanwhile.
THEOREM ReportedTheorem == Spec => []ReportedStays
<1>1. PublishInv => ReportedStays
  BY DEF PublishInv, ReportedInv, Good, ReportedStays
<1> QED
  BY <1>1, PublishInvariant, PTL
=============================================================================

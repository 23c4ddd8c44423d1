----------------------------- MODULE BurnPublish -----------------------------
(***************************************************************************)
(* FastForwardBranch (integration.py) at the level of refs: its publish    *)
(* clone, the consumer's repository and the remote, with humans who push,  *)
(* commit and switch branches meanwhile, and a driver that may die between *)
(* any two git commands.                                                   *)
(*                                                                         *)
(* A ref holds a history, the set of the commits it reaches, so a ref is   *)
(* an ancestor of another when its history is a subset.  Attempt n is the  *)
(* commit n, and human commits are numbered downwards from -1.             *)
(*                                                                         *)
(* The setups are the three ways the strategy is used:                     *)
(*   mirror : default_integration, the base branch through a clone         *)
(*   shared : a branch beside the base branch, moved in config.repo        *)
(*   local  : a base branch without a remote, moved in config.repo         *)
(***************************************************************************)
EXTENDS Integers, FiniteSets

CONSTANTS Setups, MaxAttempts, MaxHuman, MaxDeaths

ASSUME SetupsAssumption == Setups \subseteq {"mirror", "shared", "local"}
ASSUME BoundsAssumption == MaxAttempts \in Nat /\ MaxHuman \in Nat /\ MaxDeaths \in Nat

Branches == {"base", "burn"}
Attempts == 1 .. MaxAttempts
Commits == Attempts \cup (-MaxHuman .. -1)
Outcomes == {"none", "published", "unpushed", "refused", "unfetched"}

VARIABLES
    setup,
    remote, repo,     \* the branches on the remote and in config.repo
    current,          \* what config.repo has checked out
    clone, copy,      \* the publish clone: absent, attached to the branch it was
                      \* cloned with, or detached; and the base branch in it
    pc, attempt,      \* the driver's place in publish, the attempt it is at
    sha,              \* the history of the attempt
    seen,             \* the shared branch as the ancestry check saw it
    outcome,          \* what publish made of each attempt
    humans, deaths    \* counters behind the bounds

refVars    == <<remote, repo, copy>>
driverVars == <<pc, attempt, sha, seen, outcome>>
vars == <<setup, refVars, current, clone, driverVars, humans, deaths>>

TypeOK ==
    /\ setup \in Setups
    /\ remote \in [Branches -> SUBSET Commits] /\ repo \in [Branches -> SUBSET Commits]
    /\ current \in Branches \cup {"other"}
    /\ clone \in {"absent", "attached", "detached"} /\ copy \subseteq Commits
    /\ pc \in {"idle", "clone", "detach", "refresh", "bring", "check", "move", "push"}
    /\ attempt \in 0 .. MaxAttempts /\ sha \subseteq Commits /\ seen \subseteq Commits
    /\ outcome \in [Attempts -> Outcomes]
    /\ \A n \in Attempts : n > attempt => outcome[n] = "none"
    /\ humans \in 0 .. MaxHuman /\ deaths \in 0 .. MaxDeaths

Init ==
    /\ setup \in Setups
    /\ remote = [b \in Branches |-> {}] /\ repo = remote /\ copy = {}
    /\ current \in Branches \cup {"other"} /\ clone = "absent"
    /\ pc = "idle" /\ attempt = 0 /\ sha = {} /\ seen = {}
    /\ outcome = [n \in Attempts |-> "none"]
    /\ humans = 0 /\ deaths = 0

(***************************************************************************)
(* The driver.                                                             *)
(***************************************************************************)
\* The branch that is published to, and the ref of it that is moved.
Target == IF setup = "shared" THEN "burn" ELSE "base"
Ref == IF setup = "mirror" THEN copy ELSE repo[Target]

\* base_ref, right after ensure_mirror has fetched.
BaseRef == IF setup = "local" THEN repo["base"] ELSE remote["base"]

Ends(how) ==
    /\ pc' = "idle" /\ outcome' = [outcome EXCEPT ![attempt] = how]
    /\ UNCHANGED <<attempt, sha>>

Goes(next) == pc' = next /\ UNCHANGED <<attempt, sha, outcome>>

\* Attempts cut from the branch they are to be published to.
CutFromTarget ==
    /\ pc = "idle" /\ attempt < MaxAttempts
    /\ pc' = IF setup = "mirror" THEN "clone" ELSE "check"
    /\ attempt' = attempt + 1 /\ sha' = repo[Target] \cup {attempt'} /\ seen' = {}
    /\ UNCHANGED <<setup, refVars, current, clone, outcome, humans, deaths>>

\* Attempts counted from one too low.
CutOneMore ==
    /\ pc = "idle" /\ attempt <= MaxAttempts
    /\ pc' = IF setup = "mirror" THEN "clone" ELSE "check"
    /\ attempt' = attempt + 1 /\ sha' = BaseRef \cup {attempt'} /\ seen' = {}
    /\ UNCHANGED <<setup, refVars, current, clone, outcome, humans, deaths>>

\* An attempt is cut from the base branch, worked and verified.
Cut ==
    /\ pc = "idle" /\ attempt < MaxAttempts
    /\ pc' = IF setup = "mirror" THEN "clone" ELSE "check"
    /\ attempt' = attempt + 1 /\ sha' = BaseRef \cup {attempt'} /\ seen' = {}
    /\ UNCHANGED <<setup, refVars, current, clone, outcome, humans, deaths>>

\* _ensure_publish_mirror: any .git there is taken for the clone.
EnsureClone ==
    /\ pc = "clone"
    /\ IF clone = "absent"
         THEN Goes("detach") /\ clone' = "attached" /\ copy' = remote["base"]
         ELSE Goes("refresh") /\ UNCHANGED <<clone, copy>>
    /\ UNCHANGED <<setup, remote, repo, current, seen, humans, deaths>>

Detach ==
    /\ pc = "detach" /\ Goes("refresh")
    /\ clone' = "detached"
    /\ UNCHANGED <<setup, refVars, current, seen, humans, deaths>>

\* A publish that trusts what the clone's branch was left at.
RefreshNot ==
    /\ pc = "refresh" /\ (Ends("unfetched") \/ Goes("bring"))
    /\ UNCHANGED <<setup, refVars, current, clone, seen, humans, deaths>>

\* fetch origin and branch -f, which is refused on a branch that is checked out.
Refresh ==
    /\ pc = "refresh"
    /\ \/ Ends("unfetched") /\ UNCHANGED copy
       \/ clone = "attached" /\ Ends("refused") /\ UNCHANGED copy
       \/ clone = "detached" /\ Goes("bring") /\ copy' = remote["base"]
    /\ UNCHANGED <<setup, remote, repo, current, clone, seen, humans, deaths>>

\* The attempt's commits are fetched into the clone.
Bring ==
    /\ pc = "bring" /\ (Ends("unfetched") \/ Goes("check"))
    /\ UNCHANGED <<setup, refVars, current, clone, seen, humans, deaths>>

\* A publish without the ancestry check.
CheckNot ==
    /\ pc = "check" /\ seen' = Ref
    /\ Goes("move")
    /\ UNCHANGED <<setup, refVars, current, clone, humans, deaths>>

\* merge-base --is-ancestor.
Check ==
    /\ pc = "check" /\ seen' = Ref
    /\ IF Ref \subseteq sha THEN Goes("move") ELSE Ends("refused")
    /\ UNCHANGED <<setup, refVars, current, clone, humans, deaths>>

\* merge --ff-only on a branch that is checked out, which looks at the branch as it
\* is by now, else branch -f, which does not; then the line in review-queue.md.
Move ==
    /\ pc = "move"
    /\ IF setup # "mirror" /\ current = Target /\ ~ repo[Target] \subseteq sha
         THEN Ends("refused") /\ UNCHANGED <<repo, copy>>
         ELSE /\ IF setup = "local" THEN Ends("unpushed") ELSE Goes("push")
              /\ IF setup = "mirror"
                   THEN copy' = sha /\ UNCHANGED repo
                   ELSE repo' = [repo EXCEPT ![Target] = sha] /\ UNCHANGED copy
    /\ UNCHANGED <<setup, remote, current, clone, seen, humans, deaths>>

\* push --force.
PushForced ==
    /\ pc = "push"
    /\ remote' = [remote EXCEPT ![Target] = Ref] /\ Ends("published")
    /\ UNCHANGED <<setup, repo, copy, current, clone, seen, humans, deaths>>

\* The push, which may fail for any reason; publish does not look.
Push ==
    /\ pc = "push"
    /\ \/ /\ remote[Target] \subseteq Ref
          /\ remote' = [remote EXCEPT ![Target] = Ref] /\ Ends("published")
       \/ Ends("unpushed") /\ UNCHANGED remote
    /\ UNCHANGED <<setup, repo, copy, current, clone, seen, humans, deaths>>

Driver ==
    Cut \/ EnsureClone \/ Detach \/ Refresh \/ Bring \/ Check \/ Move \/ Push

\* A death, a clone that fails, or a checkout that fails: both raise.
Die ==
    /\ pc # "idle" /\ deaths < MaxDeaths
    /\ pc' = "idle" /\ deaths' = deaths + 1
    /\ UNCHANGED <<setup, refVars, current, clone, attempt, sha, seen, outcome, humans>>

(***************************************************************************)
(* Humans.                                                                 *)
(***************************************************************************)
\* A commit pushed to a branch of the remote, from somewhere else.
PushElsewhere(b) ==
    /\ setup # "local" /\ humans < MaxHuman
    /\ humans' = humans + 1
    /\ remote' = [remote EXCEPT ![b] = @ \cup {- humans'}]
    /\ UNCHANGED <<setup, repo, copy, current, clone, driverVars, deaths>>

\* What was published to the shared branch is merged into the base branch.
MergeShared ==
    /\ setup = "shared" /\ ~ remote["burn"] \subseteq remote["base"]
    /\ remote' = [remote EXCEPT !["base"] = @ \cup remote["burn"]]
    /\ UNCHANGED <<setup, repo, copy, current, clone, driverVars, humans, deaths>>

\* In config.repo: another branch is checked out, a commit is made, a branch is
\* brought up to date with the remote.
Checkout(b) ==
    /\ current # b /\ current' = b
    /\ UNCHANGED <<setup, refVars, clone, driverVars, humans, deaths>>

CommitHere ==
    /\ current \in Branches /\ humans < MaxHuman
    /\ humans' = humans + 1
    /\ repo' = [repo EXCEPT ![current] = @ \cup {- humans'}]
    /\ UNCHANGED <<setup, remote, copy, current, clone, driverVars, deaths>>

Pull ==
    /\ setup # "local" /\ current \in Branches
    /\ repo[current] # remote[current] /\ repo[current] \subseteq remote[current]
    /\ repo' = [repo EXCEPT ![current] = remote[current]]
    /\ UNCHANGED <<setup, remote, copy, current, clone, driverVars, humans, deaths>>

Human ==
    \/ \E b \in Branches : PushElsewhere(b)
    \/ \E b \in Branches \cup {"other"} : Checkout(b)
    \/ MergeShared \/ CommitHere \/ Pull

Next == Driver \/ Die \/ Human

Spec == Init /\ [][Next]_vars

(***************************************************************************)
(* Properties.                                                             *)
(***************************************************************************)
\* No commit anybody pushed is ever taken off a branch of the remote.
RemoteForward == [][\A b \in Branches : remote[b] \subseteq remote'[b]]_vars

\* "Moving the ref anyway would discard their work": no step takes a commit off the
\* shared branch in the repository that was there when the ancestry was checked.
\* (One that arrives after the check, on a branch that is then not checked out, is
\* lost: branch -f looks at nothing.)
SeenIsKept == [][seen \cap repo[Target] \subseteq repo'[Target]]_vars

\* A failed push, a death or a stale clone never stop later publications: through
\* the clone an attempt is refused only because the base branch has moved since it
\* was cut - or because the driver once died before the clone was detached, and then
\* every attempt is.
RefusedForCause ==
    setup = "mirror" /\ attempt > 0 /\ outcome[attempt] = "refused" =>
        ~ remote["base"] \subseteq sha \/ clone = "attached"

\* Attempts are cut from the base branch: the shared branch beside it never holds
\* more than one attempt that humans have not merged.
OneUnmerged ==
    setup = "shared" => Cardinality((repo["burn"] \cap Attempts) \ remote["base"]) <= 1

\* "The commits are already reachable from whatever the integration strategy
\* published": without a clone that is so even when the push failed, for good.
ReportedStays ==
    setup # "mirror" =>
        \A n \in Attempts : outcome[n] \in {"published", "unpushed"} => n \in repo[Target]
=============================================================================

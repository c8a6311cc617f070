---------------------------- MODULE RepoCheckout ----------------------------
(***************************************************************************)
(* prepareRepository on the git path (job_repo.go, job_resolve.go,         *)
(* utils/git.go) and ChangedFiles, against an origin that others push to   *)
(* while the job runs.                                                     *)
(*                                                                         *)
(* The origin has a base branch and a topic branch that left it at commit  *)
(* number Fork; a commit is named by its line and its number, and its      *)
(* parent has the number below. git is external: it is modelled by what    *)
(* the commands this code issues do to the clone's commits and refs.       *)
(***************************************************************************)
EXTENDS Naturals, Sequences, FiniteSets

CONSTANTS
    Repositories,   \* the repositories jobs may name (see Repository)
    Fork,           \* the number of the commit the topic branch starts from
    Lengths,        \* how many commits the topic branch may have
    MaxPushes       \* bound: how many pushes happen while the job runs

(* What the server sent: the event, the provider, and which fields are set. *)
Repository == [event : {"push", "pull_request"},
               provider : {"gitlab", "github", "bitbucket"},
               commit : BOOLEAN, branch : BOOLEAN, tag : BOOLEAN, prNumber : BOOLEAN,
               baseBranch : BOOLEAN, baseCommit : BOOLEAN]

ASSUME RepositoriesAssumption == Repositories \subseteq Repository
ASSUME HistoryAssumption == /\ Fork \in Nat /\ Lengths \subseteq Nat \ {0}
                            /\ MaxPushes \in Nat

VARIABLES
    pc,             \* where prepareRepository (then the scan) is
    repo,           \* the job's repository
    asked,          \* CommitSHA, if set: the tip of the topic branch at the trigger
    topic, base,    \* origin: the numbers of the two branches' tips
    onOrigin,       \* whether the topic is a branch of origin (not of a fork)
    todo,           \* the refs GitFetch has yet to fetch
    tips,           \* the clone: the commits fetched by name
    depth,          \* ... and how much of their history came with them
    fetchHead,      \* ... FETCH_HEAD
    tracking,       \* ... origin/<Branch> and origin/<BaseBranch>
    head,           \* ... HEAD
    round,          \* the deepening steps taken
    resolvedHead,   \* the job's resolvedHeadSHA ...
    resolvedBase,   \* ... and resolvedBaseSHA
    diffBase,       \* what ChangedFiles compared HEAD with
    ctxDone,        \* the job's context is cancelled
    gitFailed       \* some git command has failed

origin  == <<repo, asked, topic, base, onOrigin>>
clone   == <<tips, depth, fetchHead, tracking, head>>
derived == <<resolvedHead, resolvedBase, diffBase>>
vars == <<pc, origin, todo, clone, round, derived, ctxDone, gitFailed>>

-----------------------------------------------------------------------------
(* Commits *)

Commit == [line : {"base", "topic"}, n : Nat]
None   == [line |-> "none", n |-> 0]
On(line, n) == [line |-> line, n |-> n]

ForkPoint == On("base", Fork)
BaseCommitSHA == ForkPoint

(* The commit k generations before c. *)
Back(c, k) == IF c.line = "topic" /\ c.n - k <= Fork THEN On("base", c.n - k)
              ELSE On(c.line, c.n - k)

IsAncestor(a, c) == a.n <= c.n /\ Back(c, c.n - a.n) = a

(* The clone is shallow: it has the first `depth' generations of each tip.  *)
ParentKnown(c) == {t \in tips : IsAncestor(c, t) /\ t.n - c.n + 1 < depth} # {}
Connected(a, c) == IsAncestor(a, c) /\ \A k \in 0..(c.n - a.n - 1) : ParentKnown(Back(c, k))
Present(c) == {t \in tips : Connected(c, t)} # {}

Lower(m, n) == IF m < n THEN m ELSE n

(* The ancestors two commits have in common as far as the clone knows, and  *)
(* the best of them.                                                        *)
Common(c, d) == {a \in {Back(c, c.n - n) : n \in 0..Lower(c.n, d.n)} :
                    Connected(a, c) /\ Connected(a, d)}
MergeBase(c, d) == CHOOSE a \in Common(c, d) : \A b \in Common(c, d) : b.n <= a.n

-----------------------------------------------------------------------------
(* buildRefSpecs and buildMrPrRefSpecs *)

Opt(set, ref) == IF set THEN <<ref>> ELSE <<>>
ByFetchHead(r) == r.event = "pull_request" /\ r.provider \in {"gitlab", "bitbucket"}

MrPrRefs(r) ==
    Opt(IF ByFetchHead(r) THEN r.prNumber ELSE r.commit,
        IF ByFetchHead(r) THEN "prHead" ELSE "commit") \o Opt(r.baseBranch, "baseBranch")

PushRefs(r) ==
    Opt(r.tag \/ r.branch, IF r.tag THEN "tag" ELSE "branch") \o Opt(r.baseCommit, "baseCommit")

RefSpecs(r) ==
    LET refs == IF r.event = "pull_request" THEN MrPrRefs(r) ELSE PushRefs(r)
    IN IF refs # <<>> THEN refs
       ELSE Opt(r.commit \/ r.branch, IF r.commit THEN "commit" ELSE "branch")

CheckoutRefBranch(r) ==     \* mutant: the branch is preferred to the commit
    IF ByFetchHead(r) THEN "FETCH_HEAD"
    ELSE IF r.branch THEN "origin/branch"
    ELSE IF r.commit THEN "commit" ELSE "none"

CheckoutRef(r) ==
    IF ByFetchHead(r) THEN "FETCH_HEAD"
    ELSE IF r.commit THEN "commit"
    ELSE IF r.branch THEN "origin/branch" ELSE "none"

(* What each variable ranges over; every ref of the clone names a commit    *)
(* that was fetched.                                                        *)
TypeOK ==
    /\ pc \in {"fetch", "checkout", "deepen", "resolveHead", "resolveBase", "ready", "failed"}
    /\ repo \in Repositories
    /\ asked \in Commit
    /\ topic \in Nat /\ base \in Nat /\ onOrigin \in BOOLEAN
    /\ todo \in Seq({"prHead", "commit", "baseBranch", "tag", "branch", "baseCommit"})
    /\ tips \subseteq Commit /\ depth \in Nat \ {0}
    /\ {fetchHead, head} \subseteq tips \cup {None}
    /\ tracking \in [branch : tips \cup {None}, base : tips \cup {None}]
    /\ round \in 0..4
    /\ {resolvedHead, resolvedBase, diffBase} \subseteq Commit \cup {None}
    /\ ctxDone \in BOOLEAN /\ gitFailed \in BOOLEAN

(* The refs are computed, the temporary directory and the clone are set up. *)
Init ==
    /\ pc = "fetch"
    /\ repo \in Repositories
    /\ topic \in {Fork + n : n \in Lengths}
    /\ asked = On("topic", topic)
    /\ base = Fork + 1
    /\ onOrigin \in BOOLEAN
    /\ todo = RefSpecs(repo)
    /\ tips = {} /\ depth = 1
    /\ fetchHead = None /\ head = None
    /\ tracking = [branch |-> None, base |-> None]
    /\ round = 0
    /\ resolvedHead = None /\ resolvedBase = None /\ diffBase = None
    /\ ctxDone = FALSE /\ gitFailed = FALSE

Goto(from, to) == pc = from /\ pc' = to

-----------------------------------------------------------------------------
(* GitCheckout *)

(* What a ref names at origin when it is fetched. *)
Fetched(ref) ==
    IF ref \in {"commit", "tag"} THEN asked
    ELSE IF ref = "baseCommit" THEN BaseCommitSHA
    ELSE IF ref = "baseBranch" THEN On("base", base) ELSE On("topic", topic)

(* GitFetch issues one `git fetch --depth=1' per ref: each one sets         *)
(* FETCH_HEAD anew. A branch's tracking ref follows, refspec or not.        *)
GitFetch ==
    /\ pc = "fetch" /\ todo # <<>> /\ ~ctxDone
    /\ Head(todo) = "branch" => onOrigin
    /\ LET c == Fetched(Head(todo)) IN
       /\ tips' = tips \cup {c}
       /\ fetchHead' = c
       /\ tracking' = IF Head(todo) = "branch" THEN [tracking EXCEPT !.branch = c]
                      ELSE IF Head(todo) = "baseBranch" THEN [tracking EXCEPT !.base = c]
                      ELSE tracking
    /\ todo' = Tail(todo)
    /\ UNCHANGED <<pc, origin, depth, head, round, derived, ctxDone, gitFailed>>

(* A fetch fails (no such ref, network, context): so does the preparation. *)
GitFetchFails ==
    /\ todo # <<>>
    /\ Goto("fetch", "failed")
    /\ gitFailed' = TRUE
    /\ UNCHANGED <<origin, todo, clone, round, derived, ctxDone>>

GitFetchDone ==
    /\ todo = <<>>
    /\ Goto("fetch", "checkout")
    /\ UNCHANGED <<origin, todo, clone, round, derived, ctxDone, gitFailed>>

NamedUnfetched ==           \* mutant: a commit is taken to be in the clone
    IF CheckoutRef(repo) = "commit" THEN asked ELSE fetchHead

(* The commit CheckoutRef names in the clone, or None. *)
Named ==
    CASE CheckoutRef(repo) = "FETCH_HEAD"    -> fetchHead
      [] CheckoutRef(repo) = "commit"        -> IF Present(asked) THEN asked ELSE None
      [] CheckoutRef(repo) = "origin/branch" -> tracking.branch
      [] OTHER                               -> None

GitCheckout ==
    /\ Named # None /\ ~ctxDone
    /\ Goto("checkout", IF repo.baseCommit THEN "deepen" ELSE "resolveHead")
    /\ head' = Named
    /\ UNCHANGED <<origin, todo, tips, depth, fetchHead, tracking, round, derived, ctxDone, gitFailed>>

GitCheckoutFails ==
    /\ Goto("checkout", "failed")
    /\ gitFailed' = TRUE
    /\ UNCHANGED <<origin, todo, clone, round, derived, ctxDone>>

-----------------------------------------------------------------------------
(* EnsureMergeBaseReachable *)

DeepenStepsFewer == <<10, 20, 50>>     \* mutant: a step is left out
DeepenSteps == <<10, 20, 50, 100>>

(* git merge-base succeeds: both commits are there, and so is a common one. *)
Mergeable(c, d) == /\ ~ctxDone /\ c # None /\ Present(c) /\ Present(d)
                   /\ Common(c, d) # {}

(* `git fetch --deepen=N origin' fetches every branch of origin, lengthens  *)
(* the history of every tip, and moves the tracking refs. (A branch that is *)
(* new to the clone comes with at least that much.)                         *)
Deepen ==
    /\ pc = "deepen" /\ round < Len(DeepenSteps) /\ ~ctxDone
    /\ ~Mergeable(BaseCommitSHA, head)
    /\ round' = round + 1
    /\ depth' = depth + DeepenSteps[round']
    /\ tracking' = [branch |-> IF onOrigin THEN On("topic", topic) ELSE tracking.branch,
                    base   |-> On("base", base)]
    /\ tips' = tips \cup {On("base", base)} \cup (IF onOrigin THEN {On("topic", topic)} ELSE {})
    /\ fetchHead' \in {On("base", base)} \cup (IF onOrigin THEN {On("topic", topic)} ELSE {})
    /\ UNCHANGED <<pc, origin, todo, head, derived, ctxDone, gitFailed>>

(* Its error is ignored; the loop goes on with the next step. *)
DeepenFails ==
    /\ pc = "deepen" /\ round < Len(DeepenSteps)
    /\ ~Mergeable(BaseCommitSHA, head)
    /\ round' = round + 1
    /\ gitFailed' = TRUE
    /\ UNCHANGED <<pc, origin, todo, clone, derived, ctxDone>>

(* Reached, or given up: scanners then work without a baseline. *)
DeepenDone ==
    /\ Mergeable(BaseCommitSHA, head) \/ round = Len(DeepenSteps)
    /\ Goto("deepen", "resolveHead")
    /\ UNCHANGED <<origin, todo, clone, round, derived, ctxDone, gitFailed>>

-----------------------------------------------------------------------------
(* resolveCommitSHAs *)

(* git rev-parse HEAD, if the server named no commit; an error leaves it    *)
(* unset.                                                                   *)
ResolveHead ==
    /\ Goto("resolveHead", "resolveBase")
    /\ resolvedHead' = IF ~repo.commit /\ ~ctxDone THEN head ELSE None
    /\ UNCHANGED <<origin, todo, clone, round, resolvedBase, diffBase, ctxDone, gitFailed>>

ResolveBaseTip ==           \* mutant: the tip of the base branch is taken
    /\ Goto("resolveBase", "ready")
    /\ resolvedBase' = IF repo.event = "pull_request" /\ repo.baseBranch
                       THEN tracking.base ELSE None
    /\ UNCHANGED <<origin, todo, clone, round, resolvedHead, diffBase, ctxDone, gitFailed>>

(* git merge-base origin/<BaseBranch> HEAD, for a merge request. *)
ResolveBase ==
    /\ Goto("resolveBase", "ready")
    /\ resolvedBase' = IF /\ repo.event = "pull_request" /\ repo.baseBranch
                          /\ Mergeable(tracking.base, head)
                       THEN MergeBase(tracking.base, head) ELSE None
    /\ UNCHANGED <<origin, todo, clone, round, resolvedHead, diffBase, ctxDone, gitFailed>>

-----------------------------------------------------------------------------
(* What Repository() says of the commits once the repository is prepared. *)
CommitSHA == IF repo.commit THEN asked ELSE resolvedHead
Baseline  == IF repo.baseCommit THEN BaseCommitSHA ELSE resolvedBase

(* ChangedFiles, which the handler may call: nothing without a commit or a  *)
(* base, else the diff of the base (or of origin/<BaseBranch>) with HEAD.   *)
ChangedFiles ==
    /\ pc = "ready" /\ diffBase = None /\ ~ctxDone
    /\ CommitSHA # None
    /\ LET from == IF Baseline = None /\ repo.baseBranch THEN tracking.base ELSE Baseline
       IN from # None /\ Present(from) /\ diffBase' = from
    /\ UNCHANGED <<pc, origin, todo, clone, round, resolvedHead, resolvedBase, ctxDone, gitFailed>>

(* Somebody pushes a commit to one of the branches. *)
Push ==
    /\ (topic - asked.n) + (base - (Fork + 1)) < MaxPushes
    /\ \/ topic' = topic + 1 /\ UNCHANGED base
       \/ base' = base + 1 /\ UNCHANGED topic
    /\ UNCHANGED <<pc, repo, asked, onOrigin, todo, clone, round, derived, ctxDone, gitFailed>>

CancelContext ==
    /\ ~ctxDone
    /\ ctxDone' = TRUE
    /\ UNCHANGED <<pc, origin, todo, clone, round, derived, gitFailed>>

Prepare == \/ GitFetch \/ GitFetchFails \/ GitFetchDone
           \/ GitCheckout \/ GitCheckoutFails
           \/ Deepen \/ DeepenFails \/ DeepenDone
           \/ ResolveHead \/ ResolveBase

Next == Prepare \/ ChangedFiles \/ Push \/ CancelContext

Spec == Init /\ [][Next]_vars

-----------------------------------------------------------------------------
(* The commit the job is about, named by the server or resolved, is the one *)
(* in the working directory: a push in between makes the checkout fail or   *)
(* changes nothing. Not so where FETCH_HEAD is checked out although the     *)
(* server named the commit. With a base branch that is the tip of the base  *)
(* branch (see ScansMergeRequest). Without one it is the merge request as   *)
(* it is by then, a later commit if somebody has pushed to it, and what is  *)
(* found there is filed under the commit the server named.                  *)
ScansNamedCommit ==
    (pc = "ready" /\ CommitSHA # None) =>
        \/ head = CommitSHA
        \/ /\ ByFetchHead(repo) /\ repo.commit
           /\ \/ repo.baseBranch /\ head.line = "base"
              \/ /\ ~repo.baseBranch /\ repo.prNumber
                 /\ head.line = "topic" /\ head.n \in asked.n..topic

(* A diff against the resolved baseline shows the changes of the merge      *)
(* request and no others: the baseline lies behind HEAD, and nothing after  *)
(* it up to HEAD is on the base branch already, however little of the       *)
(* history the clone has. But job_resolve.go:20 "Resolve merge-base SHA for *)
(* MR/PR events when server didn't supply it" is in vain: if the server     *)
(* named no base commit nothing is deepened, the clone connects no two      *)
(* commits, and a merge base is found only if HEAD is the base branch.      *)
BaselineShowsOwnChanges ==
    resolvedBase # None =>
        /\ IsAncestor(resolvedBase, head)
        /\ \A k \in 0..(head.n - resolvedBase.n - 1) : ~IsAncestor(Back(head, k), tracking.base)
        /\ repo.baseCommit \/ resolvedBase = head

(* Unless git failed, deepening ends with the base commit connected to HEAD *)
(* whenever it is at most 180 generations away (10 + 20 + 50 + 100).        *)
DeepeningReaches ==
    /\ pc \in {"resolveHead", "resolveBase", "ready"}
    /\ repo.baseCommit /\ ~gitFailed /\ ~ctxDone
    /\ IsAncestor(BaseCommitSHA, head) /\ head.n - BaseCommitSHA.n <= 180
    => Mergeable(BaseCommitSHA, head)

(* utils/git.go:27 "GitCheckout clones a repository and checks out a        *)
(* specific ref", which for a merge request is its head                     *)
(* (job_test.go:551 "GitLab MR checkout should be FETCH_HEAD").             *)
ScansMergeRequest ==
    (pc = "ready" /\ repo.event = "pull_request" /\ repo.prNumber) => head.line = "topic"
=============================================================================

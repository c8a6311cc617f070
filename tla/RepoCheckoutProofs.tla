-------------------------- MODULE RepoCheckoutProofs --------------------------
(* The checkout for every repository a server can name, a topic branch of    *)
(* any length and any number of pushes while the job runs.                  *)
EXTENDS RepoCheckout, Integers, TLAPS

-----------------------------------------------------------------------------
(* Commits *)

(* A commit of the origin: the topic's own commits lie above the fork. *)
Exists(c) == c \in Commit /\ (c.line = "topic" => c.n > Fork)

(* The commit On(line, n) has that line and that number. *)
LEMMA OnIs ==
  ASSUME NEW line \in {"base", "topic"}, NEW n \in Nat
  PROVE  On(line, n) \in Commit /\ On(line, n).line = line /\ On(line, n).n = n /\ On(line, n) # None
  BY DEF On, Commit, None

(* And every commit is named so. *)
LEMMA CommitIs ==
  ASSUME NEW c, Exists(c)
  PROVE  /\ c.line \in {"base", "topic"} /\ c.n \in Nat /\ c = On(c.line, c.n) /\ c # None
         /\ c.line = "topic" => c.n > Fork
  BY DEF Exists, Commit, On, None

(* The commit the topic branch starts from is one of the base branch. *)
LEMMA ForkPointExists ==
  Fork \in Nat /\ Exists(ForkPoint) /\ ForkPoint.line = "base" /\ ForkPoint.n = Fork
<1>1. Fork \in Nat
  BY HistoryAssumption
<1>2. QED
  BY <1>1, OnIs DEF Exists, ForkPoint

(* The generations behind a commit are its ancestors. *)
LEMMA BackIsAncestor ==
  ASSUME NEW c, Exists(c), NEW k \in 0..c.n
  PROVE  Back(c, k) \in Commit /\ Back(c, k).n = c.n - k /\ IsAncestor(Back(c, k), c)
<1>1. c.n \in Nat /\ c.n - k \in Nat /\ c.line \in {"base", "topic"} /\ c.n - (c.n - k) = k
  BY CommitIs
<1>2. Back(c, k) \in Commit /\ Back(c, k).n = c.n - k
  BY <1>1, OnIs DEF Back
<1>3. QED
  BY <1>1, <1>2 DEF IsAncestor

(* A commit is connected to itself. *)
LEMMA Reflexive ==
  ASSUME NEW c, Exists(c)
  PROVE  IsAncestor(c, c) /\ Connected(c, c)
<1>1. c.n \in Nat /\ c.line \in {"base", "topic"} /\ c = On(c.line, c.n) /\ c.n - c.n = 0 /\ c.n - 0 = c.n
  BY CommitIs
<1>2. Back(c, 0) = c
  BY <1>1, CommitIs, ForkPointExists DEF Back
<1>3. 0..(0 - 1) = {}
  OBVIOUS
<1>4. QED
  BY <1>1, <1>2, <1>3 DEF IsAncestor, Connected

(* The best common ancestor of two commits in the history of origin. *)
Best(c, d) == IF c.line = d.line THEN On(c.line, Lower(c.n, d.n))
              ELSE On("base", IF c.line = "base" THEN Lower(c.n, Fork) ELSE Lower(d.n, Fork))

(* It is an ancestor of both. *)
LEMMA BestIsCommon ==
  ASSUME NEW c, NEW d, Exists(c), Exists(d)
  PROVE  /\ Best(c, d) \in Commit
         /\ IsAncestor(Best(c, d), c) /\ IsAncestor(Best(c, d), d)
<1>1. /\ c.line \in {"base", "topic"} /\ c.n \in Nat /\ (c.line = "topic" => c.n > Fork)
      /\ d.line \in {"base", "topic"} /\ d.n \in Nat /\ (d.line = "topic" => d.n > Fork)
      /\ Fork \in Nat
  BY CommitIs, ForkPointExists
<1>2. ASSUME NEW e, NEW m \in Nat, NEW line \in {"base", "topic"}, e.line \in {"base", "topic"}, e.n \in Nat, m <= e.n,
             \/ line = "base" /\ e.line = "base"
             \/ line = "topic" /\ e.line = "topic" /\ m > Fork
             \/ line = "base" /\ e.line = "topic" /\ m <= Fork
      PROVE  On(line, m) \in Commit /\ IsAncestor(On(line, m), e)
  <2>1. On(line, m) \in Commit /\ On(line, m).n = m
    BY OnIs
  <2>2. e.n - (e.n - m) = m
    BY <1>2
  <2>3. Back(e, e.n - m) = On(line, m)
    <3>1. CASE line = "topic"
      BY <1>1, <1>2, <2>2, <3>1 DEF Back
    <3>2. CASE line = "base" /\ e.line = "base"
      BY <2>2, <3>2 DEF Back
    <3>3. CASE line = "base" /\ e.line = "topic"
      BY <1>2, <2>2, <3>3 DEF Back
    <3>4. QED
      BY <1>2, <3>1, <3>2, <3>3
  <2>4. QED
    BY <1>2, <2>1, <2>3 DEF IsAncestor
<1>3. CASE c.line = d.line
  <2>1. Lower(c.n, d.n) \in Nat /\ Lower(c.n, d.n) <= c.n /\ Lower(c.n, d.n) <= d.n
        /\ (c.line = "topic" => Lower(c.n, d.n) > Fork)
    BY <1>1, <1>3 DEF Lower
  <2>2. QED
    BY <1>1, <1>2, <1>3, <2>1 DEF Best
<1>4. CASE c.line = "base" /\ d.line = "topic"
  <2>1. Lower(c.n, Fork) \in Nat /\ Lower(c.n, Fork) <= c.n /\ Lower(c.n, Fork) <= Fork
        /\ Lower(c.n, Fork) <= d.n
    BY <1>1, <1>4 DEF Lower
  <2>2. Best(c, d) = On("base", Lower(c.n, Fork))
    BY <1>4 DEF Best
  <2>3. QED
    BY <1>1, <1>2, <1>4, <2>1, <2>2
<1>5. CASE c.line = "topic" /\ d.line = "base"
  <2>1. Lower(d.n, Fork) \in Nat /\ Lower(d.n, Fork) <= d.n /\ Lower(d.n, Fork) <= Fork
        /\ Lower(d.n, Fork) <= c.n
    BY <1>1, <1>5 DEF Lower
  <2>2. Best(c, d) = On("base", Lower(d.n, Fork))
    BY <1>5 DEF Best
  <2>3. QED
    BY <1>1, <1>2, <1>5, <2>1, <2>2
<1>6. QED
  BY <1>1, <1>3, <1>4, <1>5

(* And none of their common ancestors lies above it. *)
LEMMA BestIsBest ==
  ASSUME NEW c, NEW d, Exists(c), Exists(d),
         NEW a, a.n \in Nat, IsAncestor(a, c), IsAncestor(a, d)
  PROVE  a.n <= Best(c, d).n /\ Best(c, d).n \in Nat
<1>1. /\ c.line \in {"base", "topic"} /\ c.n \in Nat /\ (c.line = "topic" => c.n > Fork)
      /\ d.line \in {"base", "topic"} /\ d.n \in Nat /\ (d.line = "topic" => d.n > Fork)
      /\ Fork \in Nat
  BY CommitIs, ForkPointExists
<1>2. a.n <= c.n /\ a.n <= d.n /\ Back(c, c.n - a.n) = a /\ Back(d, d.n - a.n) = a
      /\ c.n - (c.n - a.n) = a.n /\ d.n - (d.n - a.n) = a.n
  BY <1>1 DEF IsAncestor
<1>3. CASE c.line = d.line
  <2>1. Lower(c.n, d.n) \in Nat /\ a.n <= Lower(c.n, d.n)
    BY <1>1, <1>2 DEF Lower
  <2>2. QED
    BY <1>1, <1>3, <2>1, OnIs DEF Best
<1>4. CASE c.line # d.line
  <2>1. ~(a.n > Fork)
    <3>1. SUFFICES ASSUME a.n > Fork PROVE FALSE
      OBVIOUS
    <3>2. a = On(c.line, a.n) /\ a = On(d.line, a.n)
      BY <1>1, <1>2, <3>1 DEF Back
    <3>3. QED
      BY <1>1, <1>4, <3>2, OnIs
  <2>2. CASE c.line = "base"
    <3>1. Lower(c.n, Fork) \in Nat /\ a.n <= Lower(c.n, Fork)
      BY <1>1, <1>2, <2>1 DEF Lower
    <3>2. QED
      BY <1>4, <2>2, <3>1, OnIs DEF Best
  <2>3. CASE c.line # "base"
    <3>1. Lower(d.n, Fork) \in Nat /\ a.n <= Lower(d.n, Fork)
      BY <1>1, <1>2, <2>1 DEF Lower
    <3>2. QED
      BY <1>4, <2>3, <3>1, OnIs DEF Best
  <2>4. QED
    BY <2>2, <2>3
<1>5. QED
  BY <1>3, <1>4

(* What the clone connects to a commit it connects to the commits above. *)
LEMMA ConnectedAbove ==
  ASSUME NEW c, Exists(c), NEW a, NEW b, a.n \in Nat, b.n \in Nat, a.n <= b.n,
         Connected(a, c), IsAncestor(b, c)
  PROVE  Connected(b, c)
<1>1. c.n \in Nat
  BY CommitIs
<1>2. 0..(c.n - b.n - 1) \subseteq 0..(c.n - a.n - 1)
  BY <1>1
<1>3. QED
  BY <1>2 DEF Connected

(* On a shallow clone git merge-base gives the best common ancestor or none: *)
(* nothing after it is an ancestor of the other commit.                     *)
LEMMA MergeBaseIsBest ==
  ASSUME NEW c, NEW d, Exists(c), Exists(d), Common(c, d) # {}
  PROVE  /\ MergeBase(c, d) \in Commit
         /\ Connected(MergeBase(c, d), d) /\ IsAncestor(MergeBase(c, d), d)
         /\ \A k \in 0..(d.n - MergeBase(c, d).n - 1) : ~IsAncestor(Back(d, k), c)
<1> DEFINE t == Best(c, d)
           m == MergeBase(c, d)
<1>1. c.n \in Nat /\ d.n \in Nat
  BY CommitIs
<1>2. Lower(c.n, d.n) \in Nat /\ Lower(c.n, d.n) <= c.n /\ Lower(c.n, d.n) <= d.n
  BY <1>1 DEF Lower
<1>3. ASSUME NEW a \in Common(c, d)
      PROVE  /\ a \in Commit /\ a.n \in Nat /\ Connected(a, c) /\ Connected(a, d)
             /\ IsAncestor(a, c) /\ IsAncestor(a, d)
  <2>1. PICK n \in 0..Lower(c.n, d.n) : a = Back(c, c.n - n)
    BY DEF Common
  <2>2. c.n - n \in 0..c.n
    BY <1>1, <1>2
  <2>3. a \in Commit
    BY <2>1, <2>2, BackIsAncestor
  <2>4. Connected(a, c) /\ Connected(a, d)
    BY DEF Common
  <2>5. QED
    BY <2>3, <2>4 DEF Commit, Connected
<1>4. t \in Commit /\ t.n \in Nat /\ IsAncestor(t, c) /\ IsAncestor(t, d)
  BY BestIsCommon DEF Commit
<1> HIDE DEF t, m
<1>5. \A a : a.n \in Nat /\ IsAncestor(a, c) /\ IsAncestor(a, d) => a.n <= t.n
  BY BestIsBest DEF t
<1>6. t \in Common(c, d)
  <2>1. PICK a \in Common(c, d) : TRUE
    OBVIOUS
  <2>2. a.n <= t.n
    BY <1>3, <1>5
  <2>3. Connected(t, c) /\ Connected(t, d)
    BY <1>3, <1>4, <2>2, ConnectedAbove
  <2>4. t.n \in 0..Lower(c.n, d.n) /\ t = Back(c, c.n - t.n)
    BY <1>1, <1>4 DEF IsAncestor, Lower
  <2>5. QED
    BY <2>3, <2>4 DEF Common
<1>7. m \in Common(c, d) /\ \A b \in Common(c, d) : b.n <= m.n
  <2>1. \A b \in Common(c, d) : b.n <= t.n
    BY <1>3, <1>5
  <2>2. QED
    BY <1>6, <2>1 DEF MergeBase, m
<1>8. m.n \in Nat /\ m.n = t.n /\ m \in Commit /\ Connected(m, d) /\ IsAncestor(m, d)
  BY <1>3, <1>4, <1>5, <1>6, <1>7
<1>9. ASSUME NEW k \in 0..(d.n - m.n - 1), IsAncestor(Back(d, k), c)
      PROVE  FALSE
  <2>1. k \in 0..d.n /\ d.n - k > m.n
    BY <1>1, <1>8, <1>9
  <2>2. Back(d, k) \in Commit /\ Back(d, k).n = d.n - k /\ IsAncestor(Back(d, k), d)
    BY <2>1, BackIsAncestor
  <2>3. d.n - k \in Nat
    BY <1>1, <2>1
  <2>4. d.n - k <= t.n
    BY <1>5, <1>9, <2>2, <2>3
  <2>5. QED
    BY <1>1, <1>4, <1>8, <2>1, <2>4
<1>10. QED
  BY <1>8, <1>9 DEF m

(* A history of `depth' generations behind HEAD holds whatever of its        *)
(* ancestors lies fewer generations away, and with it the merge base.       *)
LEMMA DeepEnough ==
  ASSUME depth \in Nat, Exists(head), head \in tips, ~ctxDone,
         IsAncestor(BaseCommitSHA, head), head.n - BaseCommitSHA.n < depth
  PROVE  Mergeable(BaseCommitSHA, head)
<1>1. /\ Fork \in Nat /\ Exists(ForkPoint) /\ ForkPoint.n = Fork /\ ForkPoint.line = "base"
      /\ head.n \in Nat /\ head.line \in {"base", "topic"} /\ Fork <= head.n
  BY ForkPointExists, CommitIs DEF IsAncestor, BaseCommitSHA
<1>2. ASSUME NEW k \in 0..(head.n - Fork - 1) PROVE ParentKnown(Back(head, k))
  <2>1. k \in 0..head.n /\ k + 1 < depth
    BY <1>1, <1>2 DEF BaseCommitSHA
  <2>2. Back(head, k).n = head.n - k /\ IsAncestor(Back(head, k), head)
    BY <2>1, BackIsAncestor
  <2>3. head.n - Back(head, k).n + 1 < depth
    BY <1>1, <2>1, <2>2
  <2>4. QED
    BY <2>2, <2>3 DEF ParentKnown
<1>3. Connected(ForkPoint, head)
  BY <1>1, <1>2 DEF Connected, BaseCommitSHA
<1>4. Present(ForkPoint) /\ Present(head)
  BY <1>3, Reflexive DEF Present
<1>5. Connected(ForkPoint, ForkPoint) /\ ForkPoint # None
  BY <1>1, Reflexive, CommitIs
<1>6. ForkPoint \in Common(ForkPoint, head)
  <2>1. Lower(Fork, head.n) = Fork /\ Fork \in 0..Fork
    BY <1>1 DEF Lower
  <2>2. Back(ForkPoint, Fork - Fork) = ForkPoint
    BY <1>1, <1>5 DEF Connected, IsAncestor
  <2>3. QED
    BY <1>1, <1>3, <1>5, <2>1, <2>2 DEF Common
<1>7. QED
  BY <1>3, <1>4, <1>5, <1>6 DEF Mergeable, BaseCommitSHA

(* A clone of one generation connects a commit of its own to nothing else. *)
LEMMA OneGeneration ==
  ASSUME depth = 1, \A t \in tips : Exists(t),
         NEW c, Exists(c), NEW a, a.n \in Nat, Connected(a, c)
  PROVE  a = c
<1>1. c.n \in Nat /\ a.n <= c.n /\ IsAncestor(a, c)
  BY CommitIs DEF Connected, IsAncestor
<1>2. ASSUME NEW k \in Nat PROVE ~ParentKnown(Back(c, k))
  <2>1. SUFFICES ASSUME NEW u \in tips, IsAncestor(Back(c, k), u), u.n - Back(c, k).n + 1 < 1
                 PROVE  FALSE
    BY DEF ParentKnown
  <2>2. u.n \in Nat /\ Back(c, k).n <= u.n
    BY <2>1, CommitIs DEF IsAncestor
  <2>3. Back(c, k).n \in Int
    BY <1>1, <1>2 DEF Back, On
  <2>4. QED
    BY <2>1, <2>2, <2>3
<1>3. ~(a.n < c.n)
  <2>1. SUFFICES ASSUME a.n < c.n PROVE FALSE
    OBVIOUS
  <2>2. 0 \in 0..(c.n - a.n - 1)
    BY <1>1, <2>1
  <2>3. QED
    BY <1>2, <2>2 DEF Connected
<1>4. c.n - a.n = 0 /\ c.n - c.n = 0
  BY <1>1, <1>3
<1>5. Back(c, 0) = a /\ Back(c, 0) = c
  BY <1>1, <1>4, Reflexive DEF IsAncestor
<1>6. QED
  BY <1>5

(* So it holds only what was fetched by name. *)
LEMMA FetchedByName ==
  ASSUME NEW c, depth = 1, \A t \in tips : Exists(t), Exists(c), Present(c)
  PROVE  c \in tips
<1>1. PICK t \in tips : Connected(c, t)
  BY DEF Present
<1>2. Exists(t) /\ c.n \in Nat
  BY CommitIs
<1>3. QED
  BY <1>1, <1>2, OneGeneration

-----------------------------------------------------------------------------
(* The inductive invariant *)

CheckedOut == {"deepen", "resolveHead", "resolveBase", "ready"}

(* Origin and clone hold commits that exist. *)
OnlyCommits ==
    /\ Exists(asked)
    /\ topic > Fork
    /\ \A t \in tips : Exists(t)

(* Nothing is deepened before the checkout, so that a commit is in the      *)
(* clone only if it was fetched; afterwards HEAD is a commit that was       *)
(* fetched, and the one the server named unless FETCH_HEAD is checked out.  *)
HeadIsFetched ==
    /\ pc \in {"fetch", "checkout"} => depth = 1 /\ round = 0
    /\ ~repo.baseCommit => depth = 1 /\ pc # "deepen"
    /\ pc \in CheckedOut => head \in tips
    /\ (pc \in CheckedOut /\ repo.commit /\ ~ByFetchHead(repo)) => head = asked

(* A merge request named by its commit and checked out by FETCH_HEAD: the    *)
(* commit that may be.                                                      *)
ByRequest == ByFetchHead(repo) /\ repo.commit

Requested(c) ==
    IF repo.baseBranch THEN c.line = "base"
    ELSE IF repo.prNumber THEN c.line = "topic" /\ c.n \in asked.n..topic
    ELSE c = asked

(* The base branch, if there is one, is fetched last; otherwise nothing but  *)
(* the request, or the commit, is fetched at all.                           *)
FetchedInOrder ==
    /\ asked.line = "topic" /\ asked.n <= topic
    /\ pc = "checkout" => todo = <<>>
    /\ (ByRequest /\ pc \in CheckedOut) => Requested(head)
    /\ (ByRequest /\ pc \in {"fetch", "checkout"}) =>
          IF repo.baseBranch
          THEN IF todo = <<>> THEN fetchHead.line = "base" ELSE todo[Len(todo)] = "baseBranch"
          ELSE /\ \A i \in 1..Len(todo) :
                     todo[i] = IF repo.prNumber THEN "prHead" ELSE "commit"
               /\ fetchHead = None \/ Requested(fetchHead)

(* What has been fetched of the history after each step, if none failed. *)
Generations == <<1, 11, 31, 81, 181>>

DeepeningSoFar ==
    /\ (pc = "deepen" /\ ~gitFailed) => depth = Generations[round + 1]
    /\ (/\ pc \in {"resolveHead", "resolveBase", "ready"}
        /\ repo.baseCommit /\ ~gitFailed /\ ~ctxDone)
       => Mergeable(BaseCommitSHA, head) \/ depth = 181

(* What is resolved is resolved from the clone as it still is. *)
ResolvedFromClone ==
    /\ resolvedHead # None => pc \in {"resolveBase", "ready"} /\ resolvedHead = head
    /\ resolvedBase # None =>
          /\ pc = "ready"
          /\ IsAncestor(resolvedBase, head)
          /\ \A k \in 0..(head.n - resolvedBase.n - 1) : ~IsAncestor(Back(head, k), tracking.base)
          /\ repo.baseCommit \/ resolvedBase = head

CheckoutInv ==
    TypeOK /\ OnlyCommits /\ HeadIsFetched /\ FetchedInOrder /\ DeepeningSoFar /\ ResolvedFromClone

(* So do the commits a fetch brings. *)
LEMMA BranchesExist ==
  ASSUME TypeOK, OnlyCommits
  PROVE  /\ Exists(On("topic", topic)) /\ Exists(On("base", base)) /\ Exists(asked)
         /\ Exists(BaseCommitSHA)
<1>1. topic \in Nat /\ base \in Nat /\ topic > Fork
  BY DEF TypeOK, OnlyCommits
<1>2. On("topic", topic) \in Commit /\ On("topic", topic).n = topic
  BY <1>1, OnIs
<1>3. On("base", base) \in Commit /\ On("base", base).line = "base"
  BY <1>1, OnIs
<1>4. QED
  BY <1>1, <1>2, <1>3, ForkPointExists DEF Exists, OnlyCommits, BaseCommitSHA

(* buildRefSpecs names only refs that the fetch knows. *)
RefNames == {"prHead", "commit", "baseBranch", "tag", "branch", "baseCommit"}

LEMMA RefSpecsType ==
  ASSUME NEW r
  PROVE  RefSpecs(r) \in Seq(RefNames)
<1>1. <<>> \in Seq(RefNames)
  OBVIOUS
<1>2. ASSUME NEW set, NEW ref \in RefNames PROVE Opt(set, ref) \in Seq(RefNames)
  BY <1>1 DEF Opt
<1>3. MrPrRefs(r) \in Seq(RefNames)
  <2>1. (IF ByFetchHead(r) THEN "prHead" ELSE "commit") \in RefNames /\ "baseBranch" \in RefNames
    BY DEF RefNames
  <2>2. QED
    BY <1>2, <2>1 DEF MrPrRefs
<1>4. PushRefs(r) \in Seq(RefNames)
  <2>1. (IF r.tag THEN "tag" ELSE "branch") \in RefNames /\ "baseCommit" \in RefNames
    BY DEF RefNames
  <2>2. QED
    BY <1>2, <2>1 DEF PushRefs
<1>5. (IF r.commit THEN "commit" ELSE "branch") \in RefNames
  BY DEF RefNames
<1>6. QED
  BY <1>2, <1>3, <1>4, <1>5 DEF RefSpecs

(* A preparation starts with nothing fetched. *)
LEMMA InitCheckout == Init => CheckoutInv
<1>1. SUFFICES ASSUME Init PROVE CheckoutInv
  OBVIOUS
<1>2. PICK n \in Lengths : topic = Fork + n
  BY <1>1 DEF Init
<1>3. Fork \in Nat /\ topic \in Nat /\ topic > Fork /\ Fork + 1 \in Nat
  BY <1>2, HistoryAssumption
<1>4. Exists(asked) /\ asked \in Commit
  BY <1>1, <1>3, OnIs DEF Init, Exists
<1>5. OnlyCommits
  BY <1>1, <1>3, <1>4 DEF Init, OnlyCommits
<1>6. TypeOK
  <2>1. todo \in Seq(RefNames)
    BY <1>1, RefSpecsType DEF Init
  <2>2. todo \in Seq({"prHead", "commit", "baseBranch", "tag", "branch", "baseCommit"})
    BY <2>1 DEF RefNames
  <2>3. repo \in Repositories /\ onOrigin \in BOOLEAN
    BY <1>1 DEF Init
  <2>4. tracking \in [branch : tips \cup {None}, base : tips \cup {None}]
    BY <1>1 DEF Init
  <2>5. base \in Nat /\ depth \in Nat \ {0} /\ round \in 0..4
    BY <1>1, <1>3 DEF Init
  <2>6. ctxDone \in BOOLEAN /\ gitFailed \in BOOLEAN
    BY <1>1 DEF Init
  <2>7. /\ pc \in {"fetch", "checkout", "deepen", "resolveHead", "resolveBase", "ready", "failed"}
        /\ tips \subseteq Commit /\ {fetchHead, head} \subseteq tips \cup {None}
        /\ {resolvedHead, resolvedBase, diffBase} \subseteq Commit \cup {None}
    BY <1>1 DEF Init
  <2>8. QED
    BY <1>3, <1>4, <2>2, <2>3, <2>4, <2>5, <2>6, <2>7 DEF TypeOK
<1>7. HeadIsFetched /\ ResolvedFromClone
  BY <1>1 DEF Init, HeadIsFetched, ResolvedFromClone, CheckedOut
<1>8. DeepeningSoFar
  BY <1>1 DEF Init, DeepeningSoFar
<1>9. FetchedInOrder
  <2>1. asked.line = "topic" /\ asked.n <= topic
    BY <1>1, <1>3, OnIs DEF Init
  <2>2. todo = RefSpecs(repo) /\ pc = "fetch" /\ fetchHead = None
    BY <1>1 DEF Init
  <2>3. ASSUME ByRequest
        PROVE  IF repo.baseBranch
               THEN todo # <<>> /\ todo[Len(todo)] = "baseBranch"
               ELSE \A i \in 1..Len(todo) : todo[i] = IF repo.prNumber THEN "prHead" ELSE "commit"
    BY <2>2, <2>3 DEF ByRequest, ByFetchHead, RefSpecs, MrPrRefs, Opt
  <2>4. QED
    BY <2>1, <2>2, <2>3 DEF FetchedInOrder, CheckedOut
<1>10. QED
  BY <1>5, <1>6, <1>7, <1>8, <1>9 DEF CheckoutInv

(* A step that leaves the clone alone leaves what is said of it. *)
LEMMA SameClone ==
  ASSUME UNCHANGED clone
  PROVE  /\ \A a, c : Connected(a, c)' <=> Connected(a, c)
         /\ \A c : Present(c)' <=> Present(c)
  BY DEF clone, Connected, Present, ParentKnown, IsAncestor, Back, On

(* Fetching one ref. *)
LEMMA FetchKeepsCheckoutInv ==
  ASSUME CheckoutInv, GitFetch PROVE CheckoutInv'
<1> DEFINE c == Fetched(Head(todo))
<1>0. TypeOK /\ OnlyCommits /\ HeadIsFetched /\ FetchedInOrder /\ ResolvedFromClone
  BY DEF CheckoutInv
<1>1. Exists(c) /\ c \in Commit
  BY <1>0, BranchesExist DEF Fetched, Exists
<1>2. pc = "fetch" /\ tips' = tips \cup {c} /\ fetchHead' = c
      /\ todo' = Tail(todo) /\ todo # <<>>
      /\ UNCHANGED <<pc, origin, depth, head, round, derived, ctxDone, gitFailed>>
  BY DEF GitFetch
<1>3. tracking' \in [branch : tips' \cup {None}, base : tips' \cup {None}]
  <2>1. tracking \in [branch : tips' \cup {None}, base : tips' \cup {None}] /\ c \in tips'
    BY <1>0, <1>2 DEF TypeOK
  <2>2. tracking' \in {tracking, [tracking EXCEPT !.branch = c], [tracking EXCEPT !.base = c]}
    BY DEF GitFetch
  <2> HIDE DEF c
  <2>3. QED
    BY <2>1, <2>2
<1> HIDE DEF c
<1>4. TypeOK'
  <2>1. todo' \in Seq({"prHead", "commit", "baseBranch", "tag", "branch", "baseCommit"})
    BY <1>0, <1>2 DEF TypeOK
  <2>2. tips' \subseteq Commit /\ {fetchHead, head}' \subseteq tips' \cup {None}
    BY <1>0, <1>1, <1>2 DEF TypeOK
  <2>3. QED
    BY <1>0, <1>2, <1>3, <2>1, <2>2 DEF TypeOK, origin, derived
<1>5. OnlyCommits'
  BY <1>0, <1>1, <1>2 DEF OnlyCommits, origin, Exists
<1>6. HeadIsFetched'
  BY <1>0, <1>2 DEF HeadIsFetched, CheckedOut
<1>7. DeepeningSoFar'
  BY <1>2 DEF DeepeningSoFar
<1>8. ResolvedFromClone'
  BY <1>0, <1>2 DEF ResolvedFromClone, derived
<1>9. FetchedInOrder'
  <2>1. /\ asked' = asked /\ topic' = topic /\ repo' = repo /\ pc' = pc
        /\ ByRequest' = ByRequest /\ asked.n \in Nat /\ topic \in Nat
        /\ \A x : Requested(x)' = Requested(x)
    BY <1>0, <1>2 DEF origin, ByRequest, ByFetchHead, Requested, TypeOK, Commit
  <2>2. todo \in Seq(RefNames) /\ todo # <<>> /\ Len(todo) \in Nat \ {0}
        /\ todo' = Tail(todo) /\ Head(todo) = todo[1]
        /\ Len(todo') = Len(todo) - 1 /\ \A i \in 1..Len(todo') : todo'[i] = todo[i + 1]
    BY <1>0, <1>2 DEF TypeOK, RefNames
  <2>3. ASSUME ByRequest, repo.baseBranch
        PROVE  IF todo' = <<>> THEN fetchHead'.line = "base" ELSE todo'[Len(todo')] = "baseBranch"
    <3>1. todo[Len(todo)] = "baseBranch"
      BY <1>0, <1>2, <2>2, <2>3 DEF FetchedInOrder
    <3>2. CASE Len(todo) = 1
      <4>1. c = On("base", base)
        BY <2>2, <3>1, <3>2 DEF c, Fetched
      <4>2. fetchHead'.line = "base" /\ todo' = <<>>
        BY <1>0, <1>2, <2>2, <3>2, <4>1, OnIs DEF TypeOK
      <4>3. QED
        BY <4>2
    <3>3. CASE Len(todo) # 1
      <4>1. Len(todo') \in 1..Len(todo') /\ Len(todo') + 1 = Len(todo)
        BY <2>2, <3>3
      <4>2. todo'[Len(todo')] = todo[Len(todo') + 1]
        BY <2>2, <4>1
      <4>3. todo' # <<>>
        <5>1. SUFFICES ASSUME todo' = <<>> PROVE FALSE
          OBVIOUS
        <5>2. Len(todo') = 0
          BY <5>1
        <5>3. QED
          BY <4>1, <5>2
      <4>4. QED
        BY <3>1, <4>1, <4>2, <4>3
    <3>4. QED
      BY <3>2, <3>3
  <2>4. ASSUME ByRequest, ~repo.baseBranch
        PROVE  /\ \A i \in 1..Len(todo') :
                     todo'[i] = IF repo.prNumber THEN "prHead" ELSE "commit"
               /\ Requested(fetchHead')
    <3>1. \A i \in 1..Len(todo) : todo[i] = IF repo.prNumber THEN "prHead" ELSE "commit"
      BY <1>0, <1>2, <2>4 DEF FetchedInOrder
    <3>2. \A i \in 1..Len(todo') : todo'[i] = IF repo.prNumber THEN "prHead" ELSE "commit"
      BY <2>2, <3>1
    <3>3. Head(todo) = IF repo.prNumber THEN "prHead" ELSE "commit"
      BY <2>2, <3>1
    <3>4. c = IF repo.prNumber THEN On("topic", topic) ELSE asked
      BY <3>3 DEF c, Fetched
    <3>5. Requested(c)
      BY <1>0, <2>1, <2>4, <3>4, OnIs DEF Requested, FetchedInOrder
    <3>6. QED
      BY <1>2, <3>2, <3>5
  <2>5. pc' = "fetch"
    BY <1>2
  <2>6. QED
    BY <1>0, <2>1, <2>3, <2>4, <2>5 DEF FetchedInOrder, CheckedOut
<1>10. QED
  BY <1>4, <1>5, <1>6, <1>7, <1>8, <1>9 DEF CheckoutInv

(* The commit a checkout finds was fetched, and is the one asked for. *)
LEMMA NamedIsFetched ==
  ASSUME CheckoutInv, pc = "checkout", Named # None
  PROVE  Named \in tips /\ (repo.commit /\ ~ByFetchHead(repo) => Named = asked)
<1>0. TypeOK /\ OnlyCommits /\ depth = 1
  BY DEF CheckoutInv, HeadIsFetched
<1>1. Present(asked) => asked \in tips
  BY <1>0, FetchedByName DEF OnlyCommits
<1>2. CASE CheckoutRef(repo) = "FETCH_HEAD"
  <2>1. Named = fetchHead
    BY <1>2 DEF Named
  <2>2. ~(repo.commit /\ ~ByFetchHead(repo))
    BY <1>2 DEF CheckoutRef
  <2>3. QED
    BY <1>0, <2>1, <2>2 DEF TypeOK
<1>3. CASE CheckoutRef(repo) = "commit"
  <2>1. Named = IF Present(asked) THEN asked ELSE None
    BY <1>3 DEF Named
  <2>2. QED
    BY <1>1, <2>1
<1>4. CASE CheckoutRef(repo) = "origin/branch"
  <2>1. Named = tracking.branch
    BY <1>4 DEF Named
  <2>2. ~(repo.commit /\ ~ByFetchHead(repo))
    BY <1>4 DEF CheckoutRef
  <2>3. tracking.branch \in tips \cup {None}
    BY <1>0 DEF TypeOK
  <2>4. QED
    BY <2>1, <2>2, <2>3
<1>5. CheckoutRef(repo) \in {"FETCH_HEAD", "commit", "origin/branch", "none"}
  BY DEF CheckoutRef
<1>6. CASE CheckoutRef(repo) = "none"
  BY <1>6 DEF Named
<1>7. QED
  BY <1>2, <1>3, <1>4, <1>5, <1>6

(* The checkout itself. *)
LEMMA CheckoutKeepsCheckoutInv ==
  ASSUME CheckoutInv, GitCheckout PROVE CheckoutInv'
<1>0. TypeOK /\ OnlyCommits /\ HeadIsFetched /\ FetchedInOrder /\ ResolvedFromClone
  BY DEF CheckoutInv
<1>1. /\ pc = "checkout" /\ Named # None /\ head' = Named
      /\ pc' = IF repo.baseCommit THEN "deepen" ELSE "resolveHead"
      /\ UNCHANGED <<origin, todo, tips, depth, fetchHead, tracking, round, derived, ctxDone, gitFailed>>
  BY DEF GitCheckout, Goto
<1>2. Named \in tips /\ (repo.commit /\ ~ByFetchHead(repo) => Named = asked)
  BY <1>1, NamedIsFetched
<1>3. TypeOK'
  BY <1>0, <1>1, <1>2 DEF TypeOK, origin, derived
<1>4. OnlyCommits'
  BY <1>0, <1>1 DEF OnlyCommits, origin, Exists
<1>5. HeadIsFetched'
  BY <1>0, <1>1, <1>2 DEF HeadIsFetched, CheckedOut, origin, ByFetchHead
<1>6. DeepeningSoFar'
  <2>1. depth' = 1 /\ round' = 0 /\ repo' = repo
    BY <1>0, <1>1 DEF HeadIsFetched, origin
  <2>2. Generations[round + 1]' = 1
    BY <2>1 DEF Generations
  <2>3. QED
    BY <1>1, <2>1, <2>2 DEF DeepeningSoFar
<1>7. ResolvedFromClone'
  BY <1>0, <1>1 DEF ResolvedFromClone, derived
<1>8. FetchedInOrder'
  <2>1. ASSUME ByRequest PROVE Requested(Named)
    <3>1. Named = fetchHead /\ todo = <<>>
      BY <1>0, <1>1, <2>1 DEF Named, CheckoutRef, ByRequest, FetchedInOrder
    <3>2. QED
      BY <1>0, <1>1, <2>1, <3>1 DEF FetchedInOrder, Requested
  <2>2. /\ ByRequest' = ByRequest /\ UNCHANGED <<asked, topic>>
        /\ \A x : Requested(x)' = Requested(x)
    BY <1>1 DEF origin, ByRequest, ByFetchHead, Requested
  <2>3. QED
    BY <1>0, <1>1, <2>1, <2>2 DEF FetchedInOrder, CheckedOut
<1>9. QED
  BY <1>3, <1>4, <1>5, <1>6, <1>7, <1>8 DEF CheckoutInv

(* One deepening that works. *)
LEMMA DeepenKeepsCheckoutInv ==
  ASSUME CheckoutInv, Deepen PROVE CheckoutInv'
<1>0. TypeOK /\ OnlyCommits /\ HeadIsFetched /\ FetchedInOrder /\ DeepeningSoFar
      /\ ResolvedFromClone
  BY DEF CheckoutInv
<1> DEFINE B == On("base", base)
           T == On("topic", topic)
<1>1. Exists(B) /\ Exists(T) /\ B \in Commit /\ T \in Commit
  BY <1>0, BranchesExist DEF Exists
<1>2. /\ pc = "deepen" /\ round < Len(DeepenSteps)
      /\ round' = round + 1 /\ depth' = depth + DeepenSteps[round']
      /\ tracking' = [branch |-> IF onOrigin THEN T ELSE tracking.branch, base |-> B]
      /\ tips' = tips \cup {B} \cup (IF onOrigin THEN {T} ELSE {})
      /\ fetchHead' \in {B} \cup (IF onOrigin THEN {T} ELSE {})
      /\ UNCHANGED <<pc, origin, todo, head, derived, ctxDone, gitFailed>>
  BY DEF Deepen
<1>3. \A r \in 0..3 : r + 1 \in 1..4 /\ DeepenSteps[r + 1] \in Nat
                      /\ Generations[r + 2] = Generations[r + 1] + DeepenSteps[r + 1]
  BY DEF Generations, DeepenSteps
<1>4. round \in 0..3
  BY <1>0, <1>2 DEF TypeOK, DeepenSteps
<1> HIDE DEF B, T
<1>5. round' \in 0..4 /\ depth' \in Nat \ {0}
  <2>1. DeepenSteps[round'] \in Nat /\ depth \in Nat \ {0}
    BY <1>0, <1>2, <1>3, <1>4 DEF TypeOK
  <2>2. QED
    BY <1>2, <1>4, <2>1
<1>6. TypeOK'
  <2>1. tracking.branch \in tips \cup {None} /\ tips \subseteq Commit /\ head \in tips \cup {None}
    BY <1>0 DEF TypeOK
  <2>2. tips' \subseteq Commit /\ {fetchHead, head}' \subseteq tips' \cup {None}
    BY <1>1, <1>2, <2>1
  <2>3. tracking' \in [branch : tips' \cup {None}, base : tips' \cup {None}]
    BY <1>2, <2>1
  <2>4. QED
    BY <1>0, <1>2, <1>5, <2>2, <2>3 DEF TypeOK, origin, derived
<1>7. OnlyCommits'
  BY <1>0, <1>1, <1>2 DEF OnlyCommits, origin, Exists
<1>8. HeadIsFetched'
  BY <1>0, <1>2 DEF HeadIsFetched, CheckedOut, origin, ByFetchHead
<1>9. DeepeningSoFar'
  <2>1. ASSUME ~gitFailed PROVE depth' = Generations[round + 2]
    <3>1. depth = Generations[round + 1]
      BY <1>0, <1>2, <2>1 DEF DeepeningSoFar
    <3>2. depth' = depth + DeepenSteps[round + 1]
      BY <1>2
    <3>3. QED
      BY <1>3, <1>4, <3>1, <3>2
  <2>2. round' + 1 = round + 2
    BY <1>2, <1>4
  <2>3. Generations[round + 1]' = Generations[round + 2]
    BY <2>2 DEF Generations
  <2>4. QED
    BY <1>2, <2>1, <2>3 DEF DeepeningSoFar
<1>10. ResolvedFromClone'
  BY <1>0, <1>2 DEF ResolvedFromClone, derived
<1>11. FetchedInOrder'
  BY <1>0, <1>2 DEF FetchedInOrder, CheckedOut, origin, ByRequest, ByFetchHead, Requested
<1>12. QED
  BY <1>6, <1>7, <1>8, <1>9, <1>10, <1>11 DEF CheckoutInv

(* The loop ends: the base commit is reached, or every step was taken. *)
LEMMA DeepenDoneKeepsCheckoutInv ==
  ASSUME CheckoutInv, DeepenDone PROVE CheckoutInv'
<1>0. TypeOK /\ OnlyCommits /\ HeadIsFetched /\ FetchedInOrder /\ DeepeningSoFar
      /\ ResolvedFromClone
  BY DEF CheckoutInv
<1>1. /\ pc = "deepen" /\ pc' = "resolveHead"
      /\ Mergeable(BaseCommitSHA, head) \/ round = 4
      /\ UNCHANGED <<origin, todo, clone, round, derived, ctxDone, gitFailed>>
  BY DEF DeepenDone, Goto, DeepenSteps
<1>2. TypeOK' /\ OnlyCommits' /\ HeadIsFetched' /\ FetchedInOrder' /\ ResolvedFromClone'
  <2>1. TypeOK'
    BY <1>0, <1>1 DEF TypeOK, origin, derived, clone
  <2>2. OnlyCommits'
    BY <1>0, <1>1 DEF OnlyCommits, origin, clone, Exists
  <2>3. HeadIsFetched'
    BY <1>0, <1>1 DEF HeadIsFetched, origin, clone, CheckedOut, ByFetchHead
  <2>4. ResolvedFromClone'
    BY <1>0, <1>1 DEF ResolvedFromClone, derived
  <2>5. FetchedInOrder'
    BY <1>0, <1>1 DEF FetchedInOrder, CheckedOut, origin, clone, ByRequest, ByFetchHead, Requested
  <2>6. QED
    BY <2>1, <2>2, <2>3, <2>4, <2>5
<1>3. DeepeningSoFar'
  <2>1. (~gitFailed /\ round = 4) => depth = 181
    BY <1>0, <1>1 DEF DeepeningSoFar, Generations
  <2>2. Mergeable(BaseCommitSHA, head) => Mergeable(BaseCommitSHA, head)'
    BY <1>1, SameClone DEF Mergeable, clone, Connected, ParentKnown, Present, Common
  <2>3. depth' = depth /\ gitFailed' = gitFailed
    BY <1>1 DEF clone
  <2>4. QED
    BY <1>1, <2>1, <2>2, <2>3 DEF DeepeningSoFar
<1>4. QED
  BY <1>2, <1>3 DEF CheckoutInv

(* A merge base that git finds is one of fetched commits. *)
LEMMA ResolveBaseKeepsCheckoutInv ==
  ASSUME CheckoutInv, ResolveBase PROVE CheckoutInv'
<1>0. TypeOK /\ OnlyCommits /\ HeadIsFetched /\ FetchedInOrder /\ DeepeningSoFar
      /\ ResolvedFromClone
  BY DEF CheckoutInv
<1>1. /\ pc = "resolveBase" /\ pc' = "ready"
      /\ resolvedBase' = IF /\ repo.event = "pull_request" /\ repo.baseBranch
                            /\ Mergeable(tracking.base, head)
                         THEN MergeBase(tracking.base, head) ELSE None
      /\ UNCHANGED <<origin, todo, clone, round, resolvedHead, diffBase, ctxDone, gitFailed>>
  BY DEF ResolveBase, Goto
<1>2. ASSUME Mergeable(tracking.base, head)
      PROVE  LET m == MergeBase(tracking.base, head) IN
             /\ m \in Commit /\ IsAncestor(m, head)
             /\ \A k \in 0..(head.n - m.n - 1) : ~IsAncestor(Back(head, k), tracking.base)
             /\ repo.baseCommit \/ m = head
  <2>1. head \in tips /\ tracking.base \in tips
    <3>1. head \in tips
      BY <1>0, <1>1 DEF HeadIsFetched, CheckedOut
    <3>2. tracking.base # None /\ tracking.base \in tips \cup {None}
      BY <1>0, <1>2 DEF Mergeable, TypeOK
    <3>3. QED
      BY <3>1, <3>2
  <2> DEFINE m == MergeBase(tracking.base, head)
  <2>2. Exists(head) /\ Exists(tracking.base) /\ Common(tracking.base, head) # {}
    BY <1>0, <1>2, <2>1 DEF OnlyCommits, Mergeable
  <2>3. /\ m \in Commit /\ Connected(m, head) /\ IsAncestor(m, head)
        /\ \A k \in 0..(head.n - m.n - 1) : ~IsAncestor(Back(head, k), tracking.base)
    BY <2>2, MergeBaseIsBest
  <2> HIDE DEF m
  <2>4. m.n \in Nat
    BY <2>3 DEF Commit
  <2>5. ASSUME ~repo.baseCommit PROVE m = head
    <3>1. depth = 1
      BY <1>0, <2>5 DEF HeadIsFetched
    <3>2. QED
      BY <1>0, <2>2, <2>3, <2>4, <3>1, OneGeneration DEF OnlyCommits
  <2>6. QED
    BY <2>3, <2>5 DEF m
<1>3. /\ resolvedBase' \in Commit \cup {None}
      /\ resolvedBase' # None =>
            /\ IsAncestor(resolvedBase', head)
            /\ \A k \in 0..(head.n - resolvedBase'.n - 1) :
                  ~IsAncestor(Back(head, k), tracking.base)
            /\ repo.baseCommit \/ resolvedBase' = head
  BY <1>1, <1>2
<1>4. TypeOK'
  BY <1>0, <1>1, <1>3 DEF TypeOK, origin, clone
<1>5. OnlyCommits'
  BY <1>0, <1>1 DEF OnlyCommits, origin, clone, Exists
<1>6. HeadIsFetched'
  BY <1>0, <1>1 DEF HeadIsFetched, origin, clone, CheckedOut, ByFetchHead
<1>7. DeepeningSoFar'
  BY <1>0, <1>1, SameClone
     DEF DeepeningSoFar, origin, clone, Mergeable, Connected, ParentKnown, Present, Common
<1>8. ResolvedFromClone'
  BY <1>0, <1>1, <1>3 DEF ResolvedFromClone, clone, origin, IsAncestor, Back, On
<1>9. FetchedInOrder'
  BY <1>0, <1>1 DEF FetchedInOrder, CheckedOut, origin, clone, ByRequest, ByFetchHead, Requested
<1>10. QED
  BY <1>4, <1>5, <1>6, <1>7, <1>8, <1>9 DEF CheckoutInv

(* The other steps leave the clone, and what was resolved, as they are, and *)
(* enter none of the places the invariant speaks of but the next one.       *)
LEMMA OthersKeepCheckoutInv ==
  ASSUME CheckoutInv,
         GitFetchFails \/ GitFetchDone \/ GitCheckoutFails \/ DeepenFails \/ ResolveHead
         \/ ChangedFiles \/ Push \/ CancelContext \/ UNCHANGED vars
  PROVE  CheckoutInv'
<1>0. TypeOK /\ OnlyCommits /\ HeadIsFetched /\ FetchedInOrder /\ DeepeningSoFar
      /\ ResolvedFromClone
  BY DEF CheckoutInv
<1>1. UNCHANGED <<repo, asked, onOrigin, clone, resolvedBase>>
      /\ (ctxDone => ctxDone') /\ (gitFailed => gitFailed')
  BY DEF GitFetchFails, GitFetchDone, GitCheckoutFails, DeepenFails, ResolveHead,
         ChangedFiles, Push, CancelContext, vars, origin, derived, clone
<1>2. \/ UNCHANGED pc
      \/ pc' = "failed"
      \/ pc = "fetch" /\ pc' = "checkout"
      \/ pc = "resolveHead" /\ pc' = "resolveBase"
  BY DEF GitFetchFails, GitFetchDone, GitCheckoutFails, DeepenFails, ResolveHead,
         ChangedFiles, Push, CancelContext, vars, Goto
<1>3. round' = round \/ (pc = "deepen" /\ pc' = "deepen" /\ gitFailed' /\ round < 4 /\ round' = round + 1)
  BY DEF GitFetchFails, GitFetchDone, GitCheckoutFails, DeepenFails, ResolveHead,
         ChangedFiles, Push, CancelContext, vars, Goto, DeepenSteps
<1>4. /\ todo' = todo
      /\ topic' \in {topic, topic + 1} /\ base' \in {base, base + 1}
      /\ ctxDone' \in BOOLEAN /\ gitFailed' \in BOOLEAN
  <2>1. ctxDone \in BOOLEAN /\ gitFailed \in BOOLEAN
    BY <1>0 DEF TypeOK
  <2>2. QED
    BY <2>1 DEF GitFetchFails, GitFetchDone, GitCheckoutFails, DeepenFails, ResolveHead,
         ChangedFiles, Push, CancelContext, vars, origin, derived
<1>5. resolvedHead' \in {resolvedHead, None}
      \/ (pc = "resolveHead" /\ pc' = "resolveBase" /\ resolvedHead' = head)
  BY DEF GitFetchFails, GitFetchDone, GitCheckoutFails, DeepenFails, ResolveHead,
         ChangedFiles, Push, CancelContext, vars, origin, derived, Goto
<1>6. diffBase' \in {diffBase, tracking.base, BaseCommitSHA, resolvedBase}
  BY DEF GitFetchFails, GitFetchDone, GitCheckoutFails, DeepenFails, ResolveHead,
         ChangedFiles, Push, CancelContext, vars, derived, Baseline
<1>7. /\ (resolvedHead = None \/ (pc \in {"resolveBase", "ready"} /\ resolvedHead = head))
      /\ (resolvedBase = None \/ pc = "ready")
      /\ UNCHANGED <<head, tips, depth, tracking, fetchHead>>
  BY <1>0, <1>1 DEF ResolvedFromClone, clone
<1>8. (pc = "ready" => pc' = "ready") /\ (pc = "resolveBase" => pc' = "resolveBase")
  BY DEF GitFetchFails, GitFetchDone, GitCheckoutFails, DeepenFails, ResolveHead,
         ChangedFiles, Push, CancelContext, vars, Goto
<1>9. TypeOK'
  <2>1. topic' \in Nat /\ base' \in Nat /\ round' \in 0..4
    BY <1>0, <1>3, <1>4 DEF TypeOK
  <2>2. {resolvedHead, resolvedBase, diffBase}' \subseteq Commit \cup {None}
    <3>1. {head, tracking.base, BaseCommitSHA} \subseteq Commit \cup {None}
      BY <1>0, ForkPointExists DEF TypeOK, BaseCommitSHA, Exists
    <3>2. QED
      BY <1>0, <1>1, <1>5, <1>6, <3>1 DEF TypeOK
  <2>3. pc' \in {"fetch", "checkout", "deepen", "resolveHead", "resolveBase", "ready", "failed"}
    BY <1>0, <1>2 DEF TypeOK
  <2>4. QED
    BY <1>0, <1>1, <1>4, <1>7, <2>1, <2>2, <2>3 DEF TypeOK
<1>10. OnlyCommits'
  <2>1. topic' > Fork
    BY <1>0, <1>4, ForkPointExists DEF TypeOK, OnlyCommits
  <2>2. QED
    BY <1>0, <1>1, <1>7, <2>1 DEF OnlyCommits, Exists
<1>11. HeadIsFetched'
  BY <1>0, <1>1, <1>2, <1>3, <1>7 DEF HeadIsFetched, CheckedOut, ByFetchHead
<1>12. DeepeningSoFar'
  <2>1. (pc = "deepen" /\ ~gitFailed)' => depth' = Generations[round + 1]'
    BY <1>0, <1>1, <1>2, <1>3, <1>7 DEF DeepeningSoFar, Generations
  <2>2. ASSUME pc' \in {"resolveHead", "resolveBase", "ready"}, repo'.baseCommit, ~gitFailed', ~ctxDone'
        PROVE  Mergeable(BaseCommitSHA, head)' \/ depth' = 181
    <3>1. pc \in {"resolveHead", "resolveBase", "ready"}
      BY <1>2, <2>2
    <3>2. Mergeable(BaseCommitSHA, head) \/ depth = 181
      BY <1>0, <1>1, <2>2, <3>1 DEF DeepeningSoFar
    <3>3. QED
      BY <1>1, <1>7, <2>2, <3>2 DEF Mergeable, Connected, ParentKnown, Present, Common
  <2>3. QED
    BY <2>1, <2>2 DEF DeepeningSoFar
<1>13. ResolvedFromClone'
  <2>1. (resolvedHead # None)' => pc' \in {"resolveBase", "ready"} /\ resolvedHead' = head'
    BY <1>2, <1>5, <1>7, <1>8
  <2>2. (resolvedBase # None)' => pc' = "ready"
    BY <1>1, <1>7, <1>8
  <2>3. (resolvedBase # None)' =>
           /\ IsAncestor(resolvedBase, head)'
           /\ \A k \in 0..(head.n - resolvedBase.n - 1)' :
                 ~IsAncestor(Back(head, k), tracking.base)'
           /\ (repo.baseCommit \/ resolvedBase = head)'
    BY <1>0, <1>1, <1>7 DEF ResolvedFromClone, IsAncestor, Back, On
  <2>4. QED
    BY <2>1, <2>2, <2>3 DEF ResolvedFromClone
<1>14. FetchedInOrder'
  <2>1. /\ asked.n \in Nat /\ topic \in Nat /\ topic' \in Nat /\ topic <= topic'
        /\ ByRequest' = ByRequest
    BY <1>0, <1>1, <1>4 DEF TypeOK, Commit, ByRequest, ByFetchHead
  <2>2. \A x : Requested(x) => Requested(x)'
    BY <1>1, <2>1 DEF Requested
  <2>3. pc' = "checkout" => todo' = <<>>
    <3>1. pc' = "checkout" => pc = "checkout" \/ GitFetchDone
      BY DEF GitFetchFails, GitFetchDone, GitCheckoutFails, DeepenFails, ResolveHead,
             ChangedFiles, Push, CancelContext, vars, Goto
    <3>2. QED
      BY <1>0, <1>4, <3>1 DEF FetchedInOrder, GitFetchDone
  <2>4. fetchHead' = fetchHead /\ head' = head /\ todo' = todo /\ repo' = repo /\ asked' = asked
    BY <1>1, <1>4, <1>7
  <2>5. asked'.line = "topic" /\ asked'.n <= topic'
    BY <1>0, <2>1, <2>4 DEF FetchedInOrder
  <2>6. (ByRequest /\ pc \in CheckedOut)' => Requested(head)'
    BY <1>0, <1>2, <2>1, <2>2, <2>4 DEF FetchedInOrder, CheckedOut
  <2>7. (ByRequest /\ pc \in {"fetch", "checkout"})' =>
          IF repo.baseBranch
          THEN IF todo = <<>> THEN fetchHead.line = "base" ELSE todo[Len(todo)] = "baseBranch"
          ELSE /\ \A i \in 1..Len(todo) :
                     todo[i] = IF repo.prNumber THEN "prHead" ELSE "commit"
               /\ fetchHead = None \/ Requested(fetchHead)'
    BY <1>0, <1>2, <2>1, <2>2, <2>4 DEF FetchedInOrder, CheckedOut
  <2>8. QED
    BY <2>3, <2>4, <2>5, <2>6, <2>7 DEF FetchedInOrder
<1>15. QED
  BY <1>9, <1>10, <1>11, <1>12, <1>13, <1>14 DEF CheckoutInv

(* So every step keeps the invariant. *)
LEMMA StepKeepsCheckoutInv == CheckoutInv /\ [Next]_vars => CheckoutInv'
<1>1. SUFFICES ASSUME CheckoutInv, [Next]_vars PROVE CheckoutInv'
  OBVIOUS
<1>2. QED
  BY <1>1, FetchKeepsCheckoutInv, CheckoutKeepsCheckoutInv, DeepenKeepsCheckoutInv,
     DeepenDoneKeepsCheckoutInv, ResolveBaseKeepsCheckoutInv, OthersKeepCheckoutInv
  DEF Next, Prepare

(* The inductive invariant holds of every checkout. *)
THEOREM CheckoutInvariant == Spec => []CheckoutInv
  BY InitCheckout, StepKeepsCheckoutInv, PTL DEF Spec

(* Every variable, every commit of the clone and every ref stays in its     *)
(* range, whatever is fetched in whatever order (utils/git.go:27-160).      *)
THEOREM CheckoutTypeCorrect == Spec => []TypeOK
<1>1. CheckoutInv => TypeOK
  BY DEF CheckoutInv
<1>2. QED
  BY <1>1, CheckoutInvariant, PTL

(* What is in the working directory when the scan starts is the commit the   *)
(* job is about (job_repo_accessors.go:26, :45-47), except where FETCH_HEAD  *)
(* is checked out although the server named the commit: then it is the tip   *)
(* of the base branch, or, for a request without one, the commit the server  *)
(* named or a later one of the same request, if somebody pushed meanwhile.  *)
THEOREM CheckoutScansNamedCommit == Spec => []ScansNamedCommit
<1>1. CheckoutInv => ScansNamedCommit
  BY DEF CheckoutInv, HeadIsFetched, FetchedInOrder, CheckedOut, ByRequest, Requested,
     ResolvedFromClone, ScansNamedCommit, CommitSHA
<1>2. QED
  BY <1>1, CheckoutInvariant, PTL

(* A resolved baseline (job_resolve.go:20-25) leaves out nothing of the      *)
(* merge request and shows nothing of the base branch, on however shallow a  *)
(* clone; and without a base commit from the server it is HEAD itself.      *)
THEOREM CheckoutBaseline == Spec => []BaselineShowsOwnChanges
<1>1. CheckoutInv => BaselineShowsOwnChanges
  BY DEF CheckoutInv, ResolvedFromClone, BaselineShowsOwnChanges
<1>2. QED
  BY <1>1, CheckoutInvariant, PTL

(* Deepening reaches every base commit at most 180 generations away, for    *)
(* topic branches of every length (utils/git.go, EnsureMergeBaseReachable). *)
THEOREM CheckoutDeepens == Spec => []DeepeningReaches
<1>1. CheckoutInv => DeepeningReaches
  <2>1. SUFFICES ASSUME CheckoutInv,
                        pc \in {"resolveHead", "resolveBase", "ready"},
                        repo.baseCommit, ~gitFailed, ~ctxDone,
                        IsAncestor(BaseCommitSHA, head), head.n - BaseCommitSHA.n <= 180
                 PROVE  Mergeable(BaseCommitSHA, head)
    BY DEF DeepeningReaches
  <2>2. Mergeable(BaseCommitSHA, head) \/ depth = 181
    BY <2>1 DEF CheckoutInv, DeepeningSoFar
  <2>3. head \in tips /\ Exists(head)
    BY <2>1 DEF CheckoutInv, HeadIsFetched, CheckedOut, OnlyCommits
  <2>4. head.n \in Nat /\ BaseCommitSHA.n \in Nat
    BY <2>3, CommitIs, ForkPointExists DEF BaseCommitSHA
  <2>5. depth = 181 => head.n - BaseCommitSHA.n < depth
    BY <2>1, <2>4
  <2>6. depth \in Nat
    BY <2>1 DEF CheckoutInv, TypeOK
  <2>7. QED
    BY <2>1, <2>2, <2>3, <2>5, <2>6, DeepEnough
<1>2. QED
  BY <1>1, CheckoutInvariant, PTL
=============================================================================

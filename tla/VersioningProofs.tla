--------------------------- MODULE VersioningProofs ---------------------------
(* Proofs about Versioning, for any names and commits, any of them numbered   *)
(* or released, and any directories.                                          *)
EXTENDS Versioning, WellFoundedInduction, TLAPS

USE BoundAssumption, NameAssumption

(* One style at build and at run time.                                        *)
LEMMA RenderStyle == ASSUME NEW p PROVE Render(p, Style) = RenderPep440(p)
BY DEF Render, Style

LEMMA PlainType == ASSUME NEW n \in -1..MaxName PROVE Plain(n) \in Version
BY DEF Plain, Version

LEMMA RenderType == ASSUME NEW p \in Pieces PROVE RenderPep440(p) \in Version
<1>1. Plain(p.tag) \in Version
  BY PlainType DEF Pieces
<1>2. p.distance \in -1..MaxCommit /\ p.commit \in 0..MaxCommit /\ p.dirty \in BOOLEAN
  BY DEF Pieces
<1> QED BY <1>1, <1>2 DEF RenderPep440, Version

(* The fields of what is rendered.                                            *)
LEMMA PlainFields ==
  ASSUME NEW n
  PROVE  /\ Plain(n).base = n /\ Plain(n).commit = 0 /\ Plain(n).dirty = FALSE
         /\ Plain(n).distance = -1 /\ Plain(n).post = -1 /\ Plain(n).dev = -1
BY DEF Plain

(* What git says of a checkout of commit c.                                   *)
Placed(p, onCommit) == p.tag # 0 /\ p.distance = 0 => onCommit[p.tag] = p.commit

LEMMA Pep440Fields ==
  ASSUME NEW p
  PROVE  IF Exact(p) THEN RenderPep440(p) = Plain(p.tag)
         ELSE /\ RenderPep440(p).commit = p.commit
              /\ RenderPep440(p).dirty = p.dirty
BY DEF RenderPep440, Plain

LEMMA BranchFields ==
  ASSUME NEW p
  PROVE  IF Exact(p) THEN RenderPep440Branch(p) = Plain(p.tag)
         ELSE /\ RenderPep440Branch(p).commit = p.commit
              /\ RenderPep440Branch(p).dirty = p.dirty
BY DEF RenderPep440Branch, RenderPep440, Plain

LEMMA PostFields ==
  ASSUME NEW p
  PROVE  IF Exact(p) THEN RenderPep440Post(p) = Plain(p.tag)
         ELSE /\ RenderPep440Post(p).commit = p.commit
              /\ RenderPep440Post(p).dev = IF p.dirty THEN 0 ELSE -1
BY DEF RenderPep440Post, RenderPep440Old, Plain

LEMMA PostBranchFields ==
  ASSUME NEW p
  PROVE  IF Exact(p) THEN RenderPep440PostBranch(p) = Plain(p.tag)
         ELSE /\ RenderPep440PostBranch(p).commit = p.commit
              /\ RenderPep440PostBranch(p).dirty = p.dirty
BY DEF RenderPep440PostBranch, Plain

LEMMA LongFields ==
  ASSUME NEW p
  PROVE  /\ RenderGitDescribeLong(p).commit = p.commit
         /\ RenderGitDescribeLong(p).dirty = p.dirty
BY DEF RenderGitDescribeLong, Plain

LEMMA DescribeFields ==
  ASSUME NEW p
  PROVE  IF p.tag # 0 /\ p.distance = 0
         THEN /\ RenderGitDescribe(p).base = p.tag /\ RenderGitDescribe(p).commit = 0
              /\ RenderGitDescribe(p).dirty = p.dirty
         ELSE /\ RenderGitDescribe(p).commit = p.commit
              /\ RenderGitDescribe(p).dirty = p.dirty
BY LongFields DEF RenderGitDescribe, Plain

(* A version without a part of its own, or one that names the commit.         *)
Tells(v, p) == IF Exact(p) THEN v = Plain(p.tag)
               ELSE v.commit = p.commit /\ v.dirty = p.dirty

LEMMA TellsApart ==
  ASSUME NEW onCommit, NEW p \in Pieces, NEW q \in Pieces,
         Placed(p, onCommit), Placed(q, onCommit),
         NEW v, Tells(v, p), Tells(v, q)
  PROVE  p.commit = q.commit /\ p.dirty = q.dirty
<1>1. p.commit # 0 /\ q.commit # 0
  BY DEF Pieces
<1>2. CASE Exact(p) /\ Exact(q)
  <2>1. p.tag = q.tag
    <3>1. Plain(p.tag) = Plain(q.tag)
      BY <1>2, Zenon DEF Tells
    <3>2. Plain(p.tag).base = Plain(q.tag).base
      BY <3>1, Zenon
    <3> QED BY <3>2, PlainFields, Zenon
  <2>2. p.commit = q.commit
    BY <1>2, <2>1 DEF Exact, Placed
  <2>3. p.dirty = q.dirty
    BY <1>2 DEF Exact, Pieces
  <2> QED BY <2>2, <2>3
<1>3. CASE Exact(p) /\ ~Exact(q)
  <2>1. v = Plain(p.tag)
    BY <1>3, Zenon DEF Tells
  <2>2. v.commit = q.commit
    BY <1>3, Zenon DEF Tells
  <2> QED BY <2>1, <2>2, <1>1, PlainFields
<1>4. CASE ~Exact(p) /\ Exact(q)
  BY <1>1, <1>4, PlainFields DEF Tells
<1>5. CASE ~Exact(p) /\ ~Exact(q)
  <2>1. v.commit = p.commit /\ v.dirty = p.dirty
    BY <1>5 DEF Tells
  <2>2. v.commit = q.commit /\ v.dirty = q.dirty
    BY <1>5 DEF Tells
  <2>3. p.commit = q.commit
    BY <2>1, <2>2
  <2>4. p.dirty = q.dirty
    BY <2>1, <2>2
  <2> QED BY <2>3, <2>4
<1> QED BY <1>2, <1>3, <1>4, <1>5

LEMMA DevTellsDirty ==
  \A b, c \in BOOLEAN : (IF b THEN 0 ELSE -1) = (IF c THEN 0 ELSE -1) => b = c
OBVIOUS

(* In a style that names the commit, the version of a checkout tells it.      *)
LEMMA NamingInjective ==
  ASSUME NEW onCommit, NEW p \in Pieces, NEW q \in Pieces,
         Placed(p, onCommit), Placed(q, onCommit),
         NEW style \in Naming, Render(p, style) = Render(q, style)
  PROVE  p.commit = q.commit /\ p.dirty = q.dirty
<1>1. CASE style = "pep440"
  BY <1>1, Pep440Fields, TellsApart DEF Render, Tells
<1>2. CASE style = "pep440-branch"
  BY <1>2, BranchFields, TellsApart DEF Render, Tells
<1>3. CASE style = "pep440-post-branch"
  BY <1>3, PostBranchFields, TellsApart DEF Render, Tells
<1>4. CASE style = "pep440-post"
  <2> DEFINE a == RenderPep440Post(p)
             b == RenderPep440Post(q)
  <2>1. a = b
    BY <1>4 DEF Render
  <2>2. IF Exact(p) THEN a = Plain(p.tag)
        ELSE a.commit = p.commit /\ a.dev = IF p.dirty THEN 0 ELSE -1
    BY PostFields
  <2>3. IF Exact(q) THEN b = Plain(q.tag)
        ELSE b.commit = q.commit /\ b.dev = IF q.dirty THEN 0 ELSE -1
    BY PostFields
  <2> HIDE DEF a, b
  <2>4. p.commit # 0 /\ q.commit # 0
    BY DEF Pieces
  <2>5. Exact(p) <=> Exact(q)
    BY <2>1, <2>2, <2>3, <2>4, PlainFields
  <2>6. CASE Exact(p)
    BY <2>1, <2>2, <2>3, <2>5, <2>6, TellsApart DEF Tells
  <2>7. CASE ~Exact(p)
    <3>1. p.commit = q.commit
      BY <2>1, <2>2, <2>3, <2>5, <2>7
    <3>2. (IF p.dirty THEN 0 ELSE -1) = (IF q.dirty THEN 0 ELSE -1)
      BY <2>1, <2>2, <2>3, <2>5, <2>7
    <3>3. p.dirty \in BOOLEAN /\ q.dirty \in BOOLEAN
      BY DEF Pieces
    <3>4. p.dirty = q.dirty
      BY <3>2, <3>3, DevTellsDirty
    <3> QED BY <3>1, <3>4
  <2> QED BY <2>6, <2>7
<1>5. CASE style = "git-describe"
  <2>1. RenderGitDescribe(p) = RenderGitDescribe(q)
    BY <1>5 DEF Render
  <2>2. p.commit # 0 /\ q.commit # 0
    BY DEF Pieces
  <2>3. p.dirty = q.dirty
    BY <2>1, DescribeFields
  <2>4. p.commit = q.commit
    BY <2>1, <2>2, DescribeFields DEF Placed
  <2> QED BY <2>3, <2>4
<1>6. CASE style = "git-describe-long"
  BY <1>6, LongFields DEF Render
<1> QED BY <1>1, <1>2, <1>3, <1>4, <1>5, <1>6 DEF Naming, Styles

-----------------------------------------------------------------------------
LEMMA LeastName == ASSUME NEW S \in SUBSET Nat, S # {} PROVE Min(S) \in S
<1> DEFINE less == OpToRel(<, Nat)
<1>1. \A x, y \in Nat : <<y, x>> \in less <=> y < x
  BY DEF OpToRel
<1> HIDE DEF less
<1>2. \E x \in S : \A y \in S : ~(<<y, x>> \in less)
  BY NatLessThanWellFounded, WFMin DEF less
<1>3. PICK x \in S : \A y \in S : ~(<<y, x>> \in less)
  BY <1>2
<1>4. \A y \in S : x =< y
  <2> TAKE y \in S
  <2>1. x \in Nat /\ y \in Nat /\ ~(y < x)
    BY <1>1, <1>3
  <2> QED BY <2>1
<1> QED BY <1>4 DEF Min

(* An archive's version is one of the tags in its keywords.                   *)
LEMMA KeywordsVersion ==
  ASSUME NEW refs \in SUBSET (Prefix \X Name), NEW prefix
  PROVE  \/ FromKeywords(refs, prefix) = Unknown
         \/ \E n \in Name : <<prefix, n>> \in refs /\ FromKeywords(refs, prefix) = Plain(n)
<1> DEFINE names == {n \in Numbered : <<prefix, n>> \in refs}
<1>1. names \subseteq Name /\ names \in SUBSET Nat
  BY DEF Name
<1>2. CASE names = {}
  BY <1>2 DEF FromKeywords
<1>3. CASE names # {}
  <2>1. Min(names) \in names
    BY <1>1, <1>3, LeastName
  <2>2. FromKeywords(refs, prefix) = Plain(Min(names))
    BY <1>3 DEF FromKeywords
  <2> QED BY <2>1, <2>2, <1>1
<1> QED BY <1>2, <1>3

LEMMA UnknownType == Unknown \in Version
BY PlainType DEF Unknown

LEMMA KeywordsType ==
  ASSUME NEW refs \in SUBSET (Prefix \X Name), NEW prefix
  PROVE  FromKeywords(refs, prefix) \in Version
<1>1. \A n \in Name : Plain(n) \in Version
  BY PlainType DEF Name
<1>2. CASE FromKeywords(refs, prefix) = Unknown
  BY <1>2, UnknownType
<1>3. CASE \E n \in Name : <<prefix, n>> \in refs /\ FromKeywords(refs, prefix) = Plain(n)
  BY <1>1, <1>3
<1> QED BY <1>2, <1>3, KeywordsVersion

LEMMA PiecesType ==
  ASSUME NEW git \in Git, NEW prefix \in Prefix
  PROVE  GitPieces(git, prefix) \in Pieces
BY DEF GitPieces, Pieces, Git

(* Whichever source of it applies, a version is one (get_versions).           *)
LEMMA VersionType ==
  ASSUME NEW t \in Tree, NEW prefix \in Prefix
  PROVE  VersionOf(t, prefix) \in Version
<1>1. t.file \in File /\ t.git \in Git /\ t.dir \in Version
  BY DEF Tree
<1>2. t.file.refs \in SUBSET (Prefix \X Name) /\ t.file.version \in Version
  BY <1>1 DEF File
<1>3. FromParentDir(t) \in Version
  BY <1>1 DEF FromParentDir
<1>4. Render(GitPieces(t.git, prefix), Style) \in Version
  BY <1>1, PiecesType, RenderType, RenderStyle
<1> QED BY <1>2, <1>3, <1>4, KeywordsType DEF VersionOf

LEMMA EmptyType == /\ Empty \in Tree /\ Empty.kind = "none" /\ NoGit \in Git
                   /\ Long \in File
<1>1. NoGit \in Git
  BY DEF NoGit, Git
<1>2. Long \in File
  BY UnknownType DEF Long, File
<1> QED BY <1>1, <1>2, UnknownType DEF Empty, Tree

LEMMA ShortType == ASSUME NEW v \in Version PROVE Short(v) \in File
BY EmptyType DEF Short, Long, File

LEMMA NoJobType == NoJob \in Job
BY UnknownType DEF NoJob, Job

(* What git counts between a tag it may take and the commit.                  *)
LEMMA DistanceType ==
  ASSUME tag \in [Prefix -> [Name -> 0..MaxCommit]], NEW prefix \in Prefix,
         NEW c \in 1..MaxCommit, NEW since \in 1..c,
         NEW n \in Nearest(prefix, since, c)
  PROVE  /\ n \in 0..MaxName /\ Distance(prefix, n, since, c) \in 0..MaxCommit
         /\ n # 0 => /\ n \in Numbered /\ tag[prefix][n] \in since..c
                    /\ Distance(prefix, n, since, c) = c - tag[prefix][n]
                    /\ \A m \in Matching(prefix, since, c) :
                         tag[prefix][m] <= tag[prefix][n]
         /\ n = 0 => Matching(prefix, since, c) = {} /\ Distance(prefix, n, since, c) # 0
<1>1. CASE n = 0
  <2>1. Matching(prefix, since, c) = {}
    BY <1>1 DEF Nearest, Matching, Name
  <2> QED BY <1>1, <2>1 DEF Distance
<1>2. CASE n # 0
  <2>1. n \in Matching(prefix, since, c)
        /\ \A m \in Matching(prefix, since, c) : tag[prefix][m] <= tag[prefix][n]
    BY <1>2 DEF Nearest
  <2>2. n \in Numbered /\ n \in Name /\ tag[prefix][n] \in since..c
    BY <2>1 DEF Matching
  <2> QED BY <1>2, <2>1, <2>2 DEF Distance, Name
<1> QED BY <1>1, <1>2

-----------------------------------------------------------------------------
(* A version tells the commit c and whether it was edited.                    *)
Encodes(v, c, edited, onCommit) ==
    \/ \E n \in Name : v = Plain(n) /\ onCommit[n] = c /\ ~edited
    \/ v.commit = c /\ v.dirty = edited

(* It tells the commit of a tree, and the changes made while git saw them.    *)
Identifies(v, t, onCommit) ==
    \E e \in BOOLEAN : (t.touched \/ e = t.edited) /\ Encodes(v, t.commit, e, onCommit)

(* What is in a directory, and where its version comes from.                  *)
CheckoutSound(t, onCommit) ==
    t.kind = "checkout" =>
        /\ t.file.kind = "long"
        /\ t.git.commit = t.commit /\ t.git.edited = t.edited /\ ~t.touched
        /\ Placed(GitPieces(t.git, BuildPrefix), onCommit)
LongSound(t) ==
    t.file.kind = "long" => t.kind \in {"checkout", "none", "copy"}
KeywordsSound(t, onCommit) ==
    t.file.kind = "keywords" =>
        /\ t.edited => t.touched
        /\ \A n \in Name : <<BuildPrefix, n>> \in t.file.refs => onCommit[n] = t.commit
ShortSound(t, onCommit) ==
    t.file.kind = "short" =>
        \/ t.file.version = Unknown \/ t.byname
        \/ Identifies(t.file.version, t, onCommit)
NoRepository(t) == t.kind \in {"none", "copy"} => t.git = NoGit
Labelled(t) == t.kind \in {"sdist", "installed"} => t.file = Short(t.label)
Sound(t, onCommit) ==
    /\ CheckoutSound(t, onCommit) /\ LongSound(t) /\ KeywordsSound(t, onCommit)
    /\ ShortSound(t, onCommit) /\ NoRepository(t) /\ Labelled(t)

(* So its version, if it has one of its own, tells the commit.                *)
LEMMA SoundVersion ==
  ASSUME NEW onCommit, NEW t \in Tree, Sound(t, onCommit)
  PROVE  \/ BuildVersion(t) = Unknown \/ ByName(t)
         \/ Identifies(BuildVersion(t), t, onCommit)
<1>1. t.file \in File /\ t.git \in Git /\ t.file.kind \in {"long", "keywords", "short"}
      /\ t.file.refs \in SUBSET (Prefix \X Name) /\ t.edited \in BOOLEAN
  BY DEF Tree, File
<1>2. CASE t.file.kind = "keywords"
  <2>1. BuildVersion(t) = FromKeywords(t.file.refs, BuildPrefix)
    BY <1>2 DEF BuildVersion, VersionOf
  <2>2. CASE FromKeywords(t.file.refs, BuildPrefix) = Unknown
    BY <2>1, <2>2
  <2>3. CASE \E n \in Name : /\ <<BuildPrefix, n>> \in t.file.refs
                             /\ FromKeywords(t.file.refs, BuildPrefix) = Plain(n)
    <3>1. Encodes(BuildVersion(t), t.commit, FALSE, onCommit)
      BY <1>2, <2>1, <2>3 DEF Sound, KeywordsSound, Encodes
    <3>2. t.touched \/ FALSE = t.edited
      BY <1>1, <1>2 DEF Sound, KeywordsSound
    <3> QED BY <3>1, <3>2 DEF Identifies
  <2> QED BY <1>1, <2>2, <2>3, KeywordsVersion
<1>3. CASE t.file.kind = "short"
  BY <1>3 DEF Sound, ShortSound, BuildVersion, VersionOf, ByName
<1>4. CASE t.file.kind = "long" /\ UnderGit(t.git)
  <2> DEFINE p == GitPieces(t.git, BuildPrefix)
  <2>1. t.kind = "checkout"
    BY <1>4 DEF Sound, LongSound, NoRepository, UnderGit
  <2>2. p \in Pieces /\ Placed(p, onCommit)
    BY <1>1, <2>1, PiecesType DEF Sound, CheckoutSound, BuildPrefix, Prefix
  <2>3. p.commit = t.commit /\ p.dirty = t.edited
    BY <2>1 DEF Sound, CheckoutSound, GitPieces
  <2>4. BuildVersion(t) = RenderPep440(p)
    BY <1>4, RenderStyle DEF BuildVersion, VersionOf
  <2> HIDE DEF p
  <2>5. CASE Exact(p)
    <3>1. RenderPep440(p) = Plain(p.tag)
      BY <2>5, Pep440Fields
    <3>2. p.tag \in Name /\ onCommit[p.tag] = t.commit
      BY <2>2, <2>3, <2>5 DEF Exact, Placed, Pieces, Name
    <3>3. ~t.edited
      BY <2>3, <2>5 DEF Exact
    <3>4. Encodes(BuildVersion(t), t.commit, t.edited, onCommit)
      BY <2>4, <3>1, <3>2, <3>3 DEF Encodes
    <3> QED BY <1>1, <3>4 DEF Identifies
  <2>6. CASE ~Exact(p)
    <3>1. RenderPep440(p).commit = p.commit /\ RenderPep440(p).dirty = p.dirty
      BY <2>6, Pep440Fields
    <3>2. Encodes(BuildVersion(t), t.commit, t.edited, onCommit)
      BY <2>3, <2>4, <3>1 DEF Encodes
    <3> QED BY <1>1, <3>2 DEF Identifies
  <2> QED BY <2>5, <2>6
<1>5. CASE t.file.kind = "long" /\ ~UnderGit(t.git)
  BY <1>5 DEF BuildVersion, VersionOf, FromParentDir, ByName
<1> QED BY <1>1, <1>2, <1>3, <1>4, <1>5

(* Two sources of one version are the same.                                   *)
LEMMA EncodesApart ==
  ASSUME NEW onCommit, NEW v,
         NEW c \in 1..MaxCommit, NEW edited \in BOOLEAN, Encodes(v, c, edited, onCommit),
         NEW d \in 1..MaxCommit, NEW changed \in BOOLEAN, Encodes(v, d, changed, onCommit)
  PROVE  c = d /\ edited = changed
<1>1. c # 0 /\ d # 0
  OBVIOUS
<1>2. CASE \E n \in Name : v = Plain(n) /\ onCommit[n] = c /\ ~edited
  <2>1. v.commit = 0
    BY <1>2, PlainFields
  <2>2. \E m \in Name : v = Plain(m) /\ onCommit[m] = d /\ ~changed
    BY <1>1, <2>1 DEF Encodes
  <2>3. onCommit[v.base] = c /\ onCommit[v.base] = d
    BY <1>2, <2>2, PlainFields
  <2>4. edited = FALSE /\ changed = FALSE
    BY <1>2, <2>2
  <2> QED BY <2>3, <2>4
<1>3. CASE v.commit = c /\ v.dirty = edited
  <2>1. v.commit # 0
    BY <1>1, <1>3
  <2>2. ~(\E m \in Name : v = Plain(m))
    BY <2>1, PlainFields
  <2>3. v.commit = d /\ v.dirty = changed
    BY <2>2 DEF Encodes
  <2>4. edited = changed
    BY <1>3, <2>3
  <2> QED BY <1>3, <2>3, <2>4
<1> QED BY <1>2, <1>3 DEF Encodes

-----------------------------------------------------------------------------
(* What each operation puts into a directory.                                 *)
LEMMA EmptySound == ASSUME NEW onCommit PROVE Sound(Empty, onCommit)
BY DEF Sound, CheckoutSound, LongSound, KeywordsSound, ShortSound, NoRepository, Labelled,
       Empty, Long

LEMMA CheckoutOK ==
  ASSUME tag \in [Prefix -> [Name -> 0..MaxCommit]],
         NEW c \in 1..MaxCommit, NEW since \in {1, c},
         NEW nearest \in [Prefix -> 0..MaxName],
         \A x \in Prefix : nearest[x] \in Nearest(x, since, c)
  PROVE  Checkout(c, since, nearest) \in Tree
         /\ Sound(Checkout(c, since, nearest), tag["staging"])
<1> DEFINE distance == [x \in Prefix |-> Distance(x, nearest[x], since, c)]
           git == [commit |-> c, edited |-> FALSE, nearest |-> nearest,
                   distance |-> distance]
           t == Checkout(c, since, nearest)
<1>1. since \in 1..c
  OBVIOUS
<1>2. \A x \in Prefix : distance[x] \in 0..MaxCommit
  BY <1>1, DistanceType
<1>3. git \in Git
  BY <1>2 DEF Git
<1>4. /\ t.kind = "checkout" /\ t.commit = c /\ t.edited = FALSE /\ t.git = git
      /\ t.file = Long /\ t.label = Unknown /\ t.touched = FALSE
  BY DEF Checkout, Empty
<1>5. t \in Tree
  <2>1. t = [Empty EXCEPT !.kind = "checkout", !.commit = c, !.git = git]
    BY DEF Checkout
  <2> HIDE DEF git, t
  <2> QED BY <2>1, <1>3, EmptyType DEF Tree
<1>6. Placed(GitPieces(git, BuildPrefix), tag["staging"])
  <2>1. "staging" \in Prefix
    BY DEF Prefix
  <2>2. nearest["staging"] # 0 =>
          /\ distance["staging"] = c - tag["staging"][nearest["staging"]]
          /\ tag["staging"][nearest["staging"]] \in since..c
    BY <1>1, <2>1, DistanceType
  <2> HIDE DEF distance
  <2>3. nearest["staging"] # 0 /\ distance["staging"] = 0
          => tag["staging"][nearest["staging"]] = c
    <3> DEFINE at == tag["staging"][nearest["staging"]]
    <3>1. SUFFICES ASSUME nearest["staging"] # 0, distance["staging"] = 0 PROVE at = c
      OBVIOUS
    <3>2. c - at = 0 /\ at \in since..c
      BY <2>2, <3>1
    <3> HIDE DEF at
    <3>3. since \in Int /\ c \in Int
      OBVIOUS
    <3> QED BY <3>2, <3>3
  <2> QED BY <2>3 DEF Placed, GitPieces, BuildPrefix
<1>7. Sound(t, tag["staging"])
  <2>1. Long.kind = "long"
    BY DEF Long
  <2>2. git.commit = c /\ git.edited = FALSE
    OBVIOUS
  <2> HIDE DEF t, git
  <2>3. CheckoutSound(t, tag["staging"])
    BY <1>4, <1>6, <2>1, <2>2 DEF CheckoutSound
  <2> QED BY <1>4, <2>1, <2>3
        DEF Sound, LongSound, KeywordsSound, ShortSound, NoRepository, Labelled
<1> QED BY <1>5, <1>7

LEMMA EditedCheckoutOK ==
  ASSUME NEW onCommit, NEW t \in Tree, Sound(t, onCommit), t.kind = "checkout"
  PROVE  Edited(t) \in Tree /\ Sound(Edited(t), onCommit)
<1> DEFINE u == Edited(t)
           git == [t.git EXCEPT !.edited = TRUE]
<1>1. /\ u.kind = t.kind /\ u.commit = t.commit /\ u.edited = TRUE /\ u.git = git
      /\ u.file = t.file /\ u.label = t.label /\ u.touched = t.touched
  BY DEF Edited, Tree
<1>2. /\ git.commit = t.git.commit /\ git.edited = TRUE
      /\ git.nearest = t.git.nearest /\ git.distance = t.git.distance
      /\ git \in Git
  BY DEF Tree, Git
<1>3. u \in Tree
  <2>1. u = [t EXCEPT !.edited = TRUE, !.git = git]
    BY DEF Edited, Tree
  <2> HIDE DEF u, git
  <2> QED BY <2>1, <1>2 DEF Tree
<1> HIDE DEF u, git
<1>4. Placed(GitPieces(git, BuildPrefix), onCommit)
  BY <1>2 DEF Sound, CheckoutSound, Placed, GitPieces
<1>5. CheckoutSound(u, onCommit)
  BY <1>1, <1>2, <1>4 DEF Sound, CheckoutSound
<1>6. t.file.kind = "long"
  BY DEF Sound, CheckoutSound
<1>7. Sound(u, onCommit)
  BY <1>1, <1>5, <1>6
     DEF Sound, LongSound, KeywordsSound, ShortSound, NoRepository, Labelled
<1> QED BY <1>3, <1>7 DEF u

(* Any other tree keeps its version, which then tells the commit alone.       *)
LEMMA EditedElsewhereOK ==
  ASSUME NEW onCommit, NEW t \in Tree, Sound(t, onCommit), t.kind # "checkout"
  PROVE  Edited(t) \in Tree /\ Sound(Edited(t), onCommit)
<1> DEFINE u == Edited(t)
<1>1. u = [t EXCEPT !.edited = TRUE, !.touched = TRUE]
  BY DEF Edited
<1> HIDE DEF u
<1>2. u \in Tree
  BY <1>1 DEF Tree
<1>3. /\ u.kind = t.kind /\ u.commit = t.commit /\ u.touched = TRUE /\ u.git = t.git
      /\ u.file = t.file /\ u.label = t.label /\ u.byname = t.byname
  BY <1>1 DEF Tree
<1>4. \A v : Identifies(v, t, onCommit) => Identifies(v, u, onCommit)
  BY <1>3 DEF Identifies
<1>5. ShortSound(u, onCommit)
  BY <1>3, <1>4 DEF Sound, ShortSound
<1>6. Sound(u, onCommit)
  BY <1>3, <1>5 DEF Sound, CheckoutSound, LongSound, KeywordsSound, NoRepository, Labelled
<1> QED BY <1>2, <1>6 DEF u

Archived(c, refs) == [Empty EXCEPT !.kind = "archive", !.commit = c,
                                   !.file = Keywords(refs)]
LEMMA ArchivedOK ==
  ASSUME NEW onCommit, NEW c \in 1..MaxCommit, NEW refs \in SUBSET (Prefix \X Name),
         \A n \in Name : <<"staging", n>> \in refs => onCommit[n] = c
  PROVE  Archived(c, refs) \in Tree /\ Sound(Archived(c, refs), onCommit)
<1> DEFINE t == Archived(c, refs)
           file == Keywords(refs)
<1>1. file \in File /\ file.kind = "keywords" /\ file.refs = refs
  BY EmptyType DEF Keywords, File
<1> HIDE DEF file
<1>2. t = [Empty EXCEPT !.kind = "archive", !.commit = c, !.file = file]
  BY DEF Archived, file
<1> HIDE DEF t
<1>3. t \in Tree
  BY <1>1, <1>2, EmptyType DEF Tree
<1>4. t.kind = "archive" /\ t.commit = c /\ t.file = file /\ t.edited = FALSE
  BY <1>2 DEF Empty
<1>5. Sound(t, onCommit)
  BY <1>1, <1>4 DEF Sound, CheckoutSound, LongSound, KeywordsSound, ShortSound,
                    NoRepository, Labelled, BuildPrefix
<1> QED BY <1>3, <1>5 DEF t

LEMMA CopiedOK ==
  ASSUME NEW onCommit, NEW t \in Tree, Sound(t, onCommit), NEW dir \in Version
  PROVE  Copied(t, dir) \in Tree /\ Sound(Copied(t, dir), onCommit)
<1> DEFINE u == Copied(t, dir)
<1>1. u \in Tree
  BY EmptyType DEF Copied, Tree
<1>2. /\ u.kind = "copy" /\ u.git = NoGit /\ u.commit = t.commit /\ u.edited = t.edited
      /\ u.touched = t.touched /\ u.file = t.file /\ u.byname = t.byname
  BY DEF Copied, Tree
<1> HIDE DEF u
<1>3. ShortSound(u, onCommit)
  BY <1>2 DEF Sound, ShortSound, Identifies
<1>4. Sound(u, onCommit)
  BY <1>2, <1>3 DEF Sound, CheckoutSound, LongSound, KeywordsSound, NoRepository, Labelled
<1> QED BY <1>1, <1>4 DEF u

LEMMA BuiltOK ==
  ASSUME NEW onCommit, NEW t \in Tree, Sound(t, onCommit),
         NEW kind \in {"sdist", "installed"}, NEW git \in Git
  PROVE  Built(t, kind, git) \in Tree /\ Sound(Built(t, kind, git), onCommit)
<1> DEFINE v == BuildVersion(t)
           file == Short(v)
           dir == IF kind = "sdist" THEN v ELSE Unknown
           byname == ByName(t)
           u == Built(t, kind, git)
<1>1. v \in Version
  BY VersionType DEF BuildVersion, BuildPrefix, Prefix
<1>2. v = Unknown \/ byname \/ Identifies(v, t, onCommit)
  BY SoundVersion
<1>3. dir \in Version /\ byname \in BOOLEAN
  BY <1>1, UnknownType DEF ByName, Tree
<1>4. u = [t EXCEPT !.kind = kind, !.git = git, !.file = file, !.label = v, !.dir = dir,
                    !.byname = byname]
  BY DEF Built, WriteToVersionFile
<1> HIDE DEF v, dir, byname
<1>5. file \in File /\ file.kind = "short" /\ file.version = v
  BY <1>1, ShortType DEF Short, Long
<1> HIDE DEF u
<1>6. /\ u.kind = kind /\ u.commit = t.commit /\ u.edited = t.edited
      /\ u.touched = t.touched /\ u.file = file /\ u.label = v /\ u.byname = byname
  BY <1>4 DEF Tree
<1> HIDE DEF file
<1>7. u \in Tree
  BY <1>1, <1>3, <1>4, <1>5 DEF Tree
<1>8. ShortSound(u, onCommit)
  BY <1>2, <1>5, <1>6 DEF ShortSound, Identifies
<1>9. Labelled(u)
  BY <1>6 DEF Labelled, file
<1>10. Sound(u, onCommit)
  BY <1>5, <1>6, <1>8, <1>9
     DEF Sound, CheckoutSound, LongSound, KeywordsSound, NoRepository
<1> QED BY <1>7, <1>10 DEF u

(* Tags stay where they are.                                                  *)
LEMMA SoundStable ==
  ASSUME NEW old, NEW new, NEW t \in Tree, Sound(t, old),
         \A n \in Name : old[n] # 0 => new[n] = old[n]
  PROVE  Sound(t, new)
<1>1. t.commit # 0 /\ t.git \in Git
  BY DEF Tree
<1>2. CheckoutSound(t, new)
  <2>1. GitPieces(t.git, BuildPrefix) \in Pieces
    BY <1>1, PiecesType DEF BuildPrefix, Prefix
  <2> QED BY <1>1, <2>1 DEF Sound, CheckoutSound, Placed, Pieces, Name, GitPieces
<1>3. KeywordsSound(t, new)
  BY <1>1 DEF Sound, KeywordsSound
<1>4. \A v : \A e \in BOOLEAN : Encodes(v, t.commit, e, old) => Encodes(v, t.commit, e, new)
  BY <1>1 DEF Encodes
<1>5. \A v : Identifies(v, t, old) => Identifies(v, t, new)
  BY <1>4 DEF Identifies
<1>6. ShortSound(t, new)
  BY <1>5 DEF Sound, ShortSound
<1> QED BY <1>2, <1>3, <1>6 DEF Sound

-----------------------------------------------------------------------------
(* A run is about the commit that carries its tag; when that is a number, the *)
(* version built there is a tag of that commit.                               *)
JobSound(n) ==
    /\ job[n].pc # "none" => tag["staging"][n] # 0
    /\ job[n].pc = "built" =>
         /\ job[n].commit = tag["staging"][n]
         /\ n \in Numbered => \E m \in Name : /\ job[n].version = Plain(m)
                                            /\ tag["staging"][m] = job[n].commit
    /\ job[n].pc = "refused" =>
         \/ n \notin Numbered
         \/ \E m \in Name \ {n} : tag["staging"][m] = tag["staging"][n]

TreesSound == \A s \in Slot : Sound(tree[s], tag["staging"])
JobsSound == \A n \in Name : JobSound(n)

IInv == TypeOK /\ TreesSound /\ JobsSound /\ PublishedAsTagged

LEMMA InitIInv == Init => IInv
<1> SUFFICES ASSUME Init PROVE IInv
  OBVIOUS
<1>1. TypeOK
  BY EmptyType, NoJobType DEF Init, TypeOK
<1>2. TreesSound
  BY EmptySound DEF Init, TreesSound
<1>3. JobsSound
  BY DEF Init, JobsSound, JobSound, NoJob
<1> QED BY <1>1, <1>2, <1>3 DEF IInv, PublishedAsTagged, Init

(* One directory changes, to something sound.                                 *)
LEMMA OneTree ==
  ASSUME IInv, NEW s \in Slot, NEW t \in Tree, Sound(t, tag["staging"]),
         tree' = [tree EXCEPT ![s] = t], UNCHANGED <<head, tag, job, published>>
  PROVE  IInv'
<1>1. TypeOK'
  BY DEF IInv, TypeOK
<1>2. TreesSound'
  BY DEF IInv, TypeOK, TreesSound
<1>3. JobsSound' /\ PublishedAsTagged'
  BY DEF IInv, JobsSound, JobSound, PublishedAsTagged
<1> QED BY <1>1, <1>2, <1>3 DEF IInv

(* One run changes, and packages are added.                                   *)
LEMMA OneJob ==
  ASSUME IInv, NEW n \in Name, NEW j \in Job,
         job' = [job EXCEPT ![n] = j], UNCHANGED <<head, tag, tree>>,
         JobSound(n)', TypeOK', PublishedAsTagged'
  PROVE  IInv'
<1>1. TreesSound'
  BY DEF IInv, TreesSound
<1>2. JobsSound'
  <2>1. ASSUME NEW m \in Name, m # n PROVE JobSound(m)'
    BY <2>1 DEF IInv, TypeOK, JobsSound, JobSound
  <2> QED BY <2>1 DEF JobsSound
<1> QED BY <1>1, <1>2 DEF IInv

LEMMA PushTagStep ==
  ASSUME IInv, NEW prefix \in Prefix, NEW n \in Name, PushTag(prefix, n)
  PROVE  IInv'
<1>1. PICK c \in 1..head : tag' = [tag EXCEPT ![prefix][n] = c]
  BY DEF PushTag
<1>2. /\ tag \in [Prefix -> [Name -> 0..MaxCommit]] /\ c \in 1..MaxCommit
      /\ tag[prefix][n] = 0 /\ UNCHANGED <<head, tree, published>>
      /\ job' = IF prefix = "staging" THEN [job EXCEPT ![n].pc = "queued"] ELSE job
  BY <1>1 DEF PushTag, IInv, TypeOK
<1>3. tag' \in [Prefix -> [Name -> 0..MaxCommit]]
  BY <1>1, <1>2
<1>4. "staging" \in Prefix
  BY DEF Prefix
<1>5. \A m \in Name : tag["staging"][m] # 0 => tag'["staging"][m] = tag["staging"][m]
  BY <1>1, <1>2, <1>4
<1>6. TypeOK'
  <2>1. job' \in [Name -> Job]
    BY <1>2 DEF IInv, TypeOK, Job
  <2> QED BY <1>2, <1>3, <2>1 DEF IInv, TypeOK
<1>7. TreesSound'
  <2> SUFFICES ASSUME NEW s \in Slot PROVE Sound(tree[s], tag["staging"])'
    BY DEF TreesSound
  <2>1. tree[s] \in Tree /\ Sound(tree[s], tag["staging"])
    BY DEF IInv, TypeOK, TreesSound
  <2>2. Sound(tree[s], tag'["staging"])
    BY <1>5, <2>1, SoundStable
  <2> QED BY <1>2, <2>2
<1>8. JobsSound'
  <2> SUFFICES ASSUME NEW m \in Name PROVE JobSound(m)'
    BY DEF JobsSound
  <2>1. JobSound(m) /\ tag["staging"][m] \in 0..MaxCommit
    BY <1>2, <1>4 DEF IInv, JobsSound
  <2>2. CASE job'[m] = job[m]
    <3>1. job[m].pc # "none" => tag'["staging"][m] = tag["staging"][m]
                                /\ tag["staging"][m] # 0
      BY <1>5, <2>1 DEF JobSound
    <3>2. \A k \in Name : job[m].pc # "none" /\ tag["staging"][k] = tag["staging"][m]
                             => tag'["staging"][k] = tag'["staging"][m]
      BY <1>5, <3>1
    <3>3. job[m].pc = "built" => job[m].commit # 0
      BY <2>1, <3>1 DEF JobSound
    <3>4. \A k \in Name : job[m].pc = "built" /\ tag["staging"][k] = job[m].commit
                             => tag'["staging"][k] = job[m].commit
      BY <1>5, <3>3
    <3> QED BY <2>1, <2>2, <3>1, <3>2, <3>4 DEF JobSound
  <2>3. CASE job'[m] # job[m]
    <3>1. m = n /\ prefix = "staging" /\ job'[m].pc = "queued"
      BY <1>2, <2>3 DEF IInv, TypeOK, Job
    <3>2. tag'["staging"][m] = c /\ c # 0
      BY <1>1, <1>2, <1>4, <3>1
    <3> QED BY <3>1, <3>2 DEF JobSound
  <2> QED BY <2>2, <2>3
<1>9. PublishedAsTagged'
  <2>1. ASSUME NEW p \in published
        PROVE  p.version = Plain(p.tag) /\ p.commit = tag'["staging"][p.tag]
    <3>1. p.tag \in Name /\ p.commit # 0
      BY DEF IInv, TypeOK
    <3> QED BY <1>5, <2>1, <3>1 DEF IInv, PublishedAsTagged
  <2> QED BY <1>2, <2>1 DEF PublishedAsTagged
<1> QED BY <1>6, <1>7, <1>8, <1>9 DEF IInv

LEMMA TreeStep ==
  ASSUME IInv, NEW s \in Slot, NEW t \in Slot,
         Clone(s) \/ Edit(s) \/ Archive(s) \/ Copy(s, t) \/ Sdist(s, t) \/ Install(s, t)
  PROVE  IInv'
<1>1. /\ head \in 1..MaxCommit /\ tag \in [Prefix -> [Name -> 0..MaxCommit]]
      /\ tree \in [Slot -> Tree]
      /\ tree[s] \in Tree /\ Sound(tree[s], tag["staging"])
  BY DEF IInv, TypeOK, TreesSound
<1>2. CASE Clone(s)
  <2>1. PICK c \in 1..head : \E since \in {1, c} : \E nearest \in [Prefix -> 0..MaxName] :
          /\ \A x \in Prefix : nearest[x] \in Nearest(x, since, c)
          /\ tree' = [tree EXCEPT ![s] = Checkout(c, since, nearest)]
    BY <1>2 DEF Clone
  <2>2. PICK since \in {1, c} : \E nearest \in [Prefix -> 0..MaxName] :
          /\ \A x \in Prefix : nearest[x] \in Nearest(x, since, c)
          /\ tree' = [tree EXCEPT ![s] = Checkout(c, since, nearest)]
    BY <2>1
  <2>3. PICK nearest \in [Prefix -> 0..MaxName] :
          /\ \A x \in Prefix : nearest[x] \in Nearest(x, since, c)
          /\ tree' = [tree EXCEPT ![s] = Checkout(c, since, nearest)]
    BY <2>2
  <2>4. c \in 1..MaxCommit
    BY <1>1
  <2>5. Checkout(c, since, nearest) \in Tree
        /\ Sound(Checkout(c, since, nearest), tag["staging"])
    BY <1>1, <2>3, <2>4, CheckoutOK
  <2>6. UNCHANGED <<head, tag, job, published>>
    BY <1>2 DEF Clone
  <2> QED BY <2>3, <2>5, <2>6, OneTree
<1>3. CASE Edit(s)
  <2>1. tree' = [tree EXCEPT ![s] = Edited(tree[s])]
        /\ UNCHANGED <<head, tag, job, published>>
    BY <1>3 DEF Edit
  <2>2. Edited(tree[s]) \in Tree /\ Sound(Edited(tree[s]), tag["staging"])
    BY <1>1, EditedCheckoutOK, EditedElsewhereOK
  <2> QED BY <2>1, <2>2, OneTree
<1>4. CASE Archive(s)
  <2>1. PICK c \in 1..head :
          tree' = [tree EXCEPT ![s] =
                     Archived(c, {x \in Prefix \X Name : tag[x[1]][x[2]] = c})]
    BY <1>4 DEF Archive, Archived
  <2> DEFINE refs == {x \in Prefix \X Name : tag[x[1]][x[2]] = c}
  <2>2. c \in 1..MaxCommit /\ refs \in SUBSET (Prefix \X Name)
        /\ \A n \in Name : <<"staging", n>> \in refs => tag["staging"][n] = c
    BY <1>1
  <2>3. tree' = [tree EXCEPT ![s] = Archived(c, refs)]
    BY <2>1
  <2> HIDE DEF refs
  <2>4. Archived(c, refs) \in Tree /\ Sound(Archived(c, refs), tag["staging"])
    BY <2>2, ArchivedOK
  <2>5. UNCHANGED <<head, tag, job, published>>
    BY <1>4 DEF Archive
  <2> QED BY <2>3, <2>4, <2>5, OneTree
<1>5. CASE Copy(s, t)
  <2>1. PICK dir \in {Unknown} \cup {Plain(n) : n \in Name} :
          tree' = [tree EXCEPT ![t] = Copied(tree[s], dir)]
    BY <1>5 DEF Copy
  <2>2. dir \in Version
    BY UnknownType, PlainType DEF Name
  <2>3. Copied(tree[s], dir) \in Tree /\ Sound(Copied(tree[s], dir), tag["staging"])
    BY <1>1, <2>2, CopiedOK
  <2>4. UNCHANGED <<head, tag, job, published>>
    BY <1>5 DEF Copy
  <2> QED BY <2>1, <2>3, <2>4, OneTree
<1>6. ASSUME NEW kind \in {"sdist", "installed"}, Place(s, t, kind)
      PROVE  IInv'
  <2>1. PICK git \in {NoGit, tree[s].git} :
          tree' = [tree EXCEPT ![t] = Built(tree[s], kind, git)]
    BY <1>6 DEF Place
  <2>2. git \in Git
    BY <1>1, EmptyType DEF Tree
  <2>3. Built(tree[s], kind, git) \in Tree
        /\ Sound(Built(tree[s], kind, git), tag["staging"])
    BY <1>1, <2>2, BuiltOK
  <2>4. UNCHANGED <<head, tag, job, published>>
    BY <1>6 DEF Place
  <2> QED BY <2>1, <2>3, <2>4, OneTree
<1> QED BY <1>2, <1>3, <1>4, <1>5, <1>6 DEF Sdist, Install

(* The tag a run is about is nearest to its commit.                           *)
LEMMA BuildStep == ASSUME IInv, NEW n \in Name, Build(n) PROVE IInv'
<1> DEFINE c == tag["staging"][n]
           pieces(near) == [tag |-> near, distance |-> Distance(BuildPrefix, near, 1, c),
                            commit |-> c, dirty |-> FALSE]
<1>1. /\ job[n].pc = "queued" /\ JobSound(n)
      /\ tag \in [Prefix -> [Name -> 0..MaxCommit]] /\ BuildPrefix \in Prefix
  BY DEF Build, IInv, TypeOK, JobsSound, BuildPrefix, Prefix
<1>2. c \in 1..MaxCommit /\ 1 \in 1..c
  BY <1>1 DEF JobSound, BuildPrefix
<1>3. PICK near \in Nearest(BuildPrefix, 1, c) :
        job' = [job EXCEPT ![n] = [pc |-> "built", version |-> Render(pieces(near), Style),
                                   commit |-> c]]
  BY DEF Build
<1> DEFINE p == pieces(near)
           j == [pc |-> "built", version |-> Render(p, Style), commit |-> c]
<1>4. /\ near \in 0..MaxName /\ Distance(BuildPrefix, near, 1, c) \in 0..MaxCommit
      /\ near # 0 => /\ Distance(BuildPrefix, near, 1, c) = c - tag[BuildPrefix][near]
                    /\ tag[BuildPrefix][near] \in 1..c
                    /\ \A m \in Matching(BuildPrefix, 1, c) :
                         tag[BuildPrefix][m] <= tag[BuildPrefix][near]
      /\ near = 0 => Matching(BuildPrefix, 1, c) = {}
  BY <1>1, <1>2, DistanceType
<1>5. p \in Pieces
  BY <1>2, <1>4 DEF Pieces
<1>6. j \in Job
  BY <1>2, <1>5, RenderType, RenderStyle DEF Job
<1>7. n \in Numbered => near \in Name /\ tag["staging"][near] = c
                       /\ Render(p, Style) = Plain(near)
  <2> SUFFICES ASSUME n \in Numbered
               PROVE  near \in Name /\ tag["staging"][near] = c
                      /\ Render(p, Style) = Plain(near)
    OBVIOUS
  <2>1. n \in Matching(BuildPrefix, 1, c)
    BY <1>2 DEF Matching, BuildPrefix
  <2>2. near # 0 /\ near \in Name /\ tag["staging"][near] = c
    BY <1>2, <1>4, <2>1 DEF BuildPrefix, Name
  <2>3. Distance(BuildPrefix, near, 1, c) = 0
    BY <1>2, <1>4, <2>2 DEF BuildPrefix
  <2>4. Exact(p)
    BY <2>2, <2>3 DEF Exact
  <2>5. Render(p, Style) = Plain(p.tag)
    BY <2>4, RenderStyle, Pep440Fields
  <2> QED BY <2>2, <2>5
<1>8. job' = [job EXCEPT ![n] = j] /\ UNCHANGED <<head, tag, tree, published>>
  BY <1>3 DEF Build
<1>9. JobSound(n)'
  <2>1. job'[n] = j
    BY <1>8 DEF IInv, TypeOK
  <2>2. j.pc = "built" /\ j.version = Render(p, Style) /\ j.commit = c
    OBVIOUS
  <2> HIDE DEF p, j
  <2> QED BY <1>2, <1>7, <1>8, <2>1, <2>2 DEF JobSound
<1>10. TypeOK'
  BY <1>6, <1>8 DEF IInv, TypeOK
<1>11. PublishedAsTagged'
  BY <1>8 DEF IInv, PublishedAsTagged
<1> QED BY <1>6, <1>8, <1>9, <1>10, <1>11, OneJob

(* What is published was built from the commit of its tag, and what is        *)
(* refused was named after another.                                           *)
LEMMA PublishStep == ASSUME IInv, NEW n \in Name, Publish(n) PROVE IInv'
<1>1. /\ job[n].pc = "built" /\ JobSound(n) /\ job[n] \in Job
      /\ UNCHANGED <<head, tag, tree>>
  BY DEF Publish, IInv, TypeOK, JobsSound
<1>2. job[n].commit = tag["staging"][n] /\ tag["staging"][n] # 0
  BY <1>1 DEF JobSound
<1>3. CASE /\ job[n].version = Plain(n) /\ job' = [job EXCEPT ![n] = [NoJob EXCEPT !.pc = "published"]]
           /\ published' = published \cup {Package(n)}
  <2> DEFINE j == [NoJob EXCEPT !.pc = "published"]
  <2>1. j \in Job /\ j.pc = "published"
    BY NoJobType DEF Job
  <2> HIDE DEF j
  <2>2. Package(n) \in [tag : Name, version : Version, commit : 1..MaxCommit]
    BY <1>1 DEF Package, Job
  <2>3. TypeOK'
    BY <1>1, <1>3, <2>1, <2>2 DEF IInv, TypeOK, j
  <2>4. PublishedAsTagged'
    <3>1. Package(n).version = Plain(Package(n).tag)
          /\ Package(n).commit = tag["staging"][Package(n).tag]
      BY <1>2, <1>3 DEF Package
    <3> QED BY <1>1, <1>3, <3>1 DEF IInv, PublishedAsTagged
  <2>5. JobSound(n)'
    <3>1. job'[n] = j
      BY <1>3 DEF IInv, TypeOK, j
    <3> QED BY <1>1, <1>2, <2>1, <3>1 DEF JobSound
  <2> QED BY <1>1, <1>3, <2>1, <2>3, <2>4, <2>5, OneJob DEF j
<1>4. CASE /\ job[n].version # Plain(n) /\ job' = [job EXCEPT ![n] = [NoJob EXCEPT !.pc = "refused"]]
           /\ UNCHANGED published
  <2> DEFINE j == [NoJob EXCEPT !.pc = "refused"]
  <2>1. j \in Job /\ j.pc = "refused"
    BY NoJobType DEF Job
  <2> HIDE DEF j
  <2>2. TypeOK' /\ PublishedAsTagged'
    BY <1>1, <1>4, <2>1 DEF IInv, TypeOK, PublishedAsTagged, j
  <2>3. n \notin Numbered \/ \E m \in Name \ {n} : tag["staging"][m] = tag["staging"][n]
    BY <1>1, <1>2, <1>4 DEF JobSound
  <2>4. JobSound(n)'
    <3>1. job'[n] = j
      BY <1>4 DEF IInv, TypeOK, j
    <3> QED BY <1>1, <1>2, <2>1, <2>3, <3>1 DEF JobSound
  <2> QED BY <1>1, <1>4, <2>1, <2>2, <2>4, OneJob DEF j
<1> QED BY <1>3, <1>4 DEF Publish

LEMMA RerunStep == ASSUME IInv, NEW n \in Name, Rerun(n) PROVE IInv'
<1> DEFINE j == [NoJob EXCEPT !.pc = "queued"]
<1>1. j \in Job /\ j.pc = "queued"
  BY NoJobType DEF Job
<1>2. /\ job' = [job EXCEPT ![n] = j] /\ UNCHANGED <<head, tag, tree, published>>
      /\ job[n].pc \in {"built", "published", "refused"}
  BY DEF Rerun
<1> HIDE DEF j
<1>3. TypeOK' /\ PublishedAsTagged'
  BY <1>1, <1>2 DEF IInv, TypeOK, PublishedAsTagged
<1>4. JobSound(n)'
  <2>1. job'[n] = j /\ tag["staging"][n] # 0
    BY <1>2 DEF IInv, TypeOK, JobsSound, JobSound
  <2> QED BY <1>1, <1>2, <2>1 DEF JobSound
<1> QED BY <1>1, <1>2, <1>3, <1>4, OneJob

LEMMA NextIInv == IInv /\ [Next]_vars => IInv'
<1> SUFFICES ASSUME IInv, [Next]_vars PROVE IInv'
  OBVIOUS
<1>1. CASE Commit
  <2>1. TypeOK'
    BY <1>1 DEF Commit, IInv, TypeOK
  <2> QED BY <1>1, <2>1 DEF Commit, IInv, TreesSound, JobsSound, JobSound, PublishedAsTagged
<1>2. ASSUME NEW prefix \in Prefix, NEW n \in Name, PushTag(prefix, n) PROVE IInv'
  BY <1>2, PushTagStep
<1>3. ASSUME NEW s \in Slot, Clone(s) \/ Edit(s) \/ Archive(s) PROVE IInv'
  BY <1>3, TreeStep
<1>4. ASSUME NEW s \in Slot, NEW t \in Slot, Copy(s, t) \/ Sdist(s, t) \/ Install(s, t)
      PROVE  IInv'
  BY <1>4, TreeStep
<1>5. ASSUME NEW n \in Name, Build(n) \/ Publish(n) \/ Rerun(n) PROVE IInv'
  BY <1>5, BuildStep, PublishStep, RerunStep
<1>6. CASE UNCHANGED vars
  BY <1>6 DEF vars, IInv, TypeOK, TreesSound, JobsSound, JobSound, PublishedAsTagged
<1> QED BY <1>1, <1>2, <1>3, <1>4, <1>5, <1>6 DEF Next

LEMMA InvAlways == Spec => []IInv
<1> QED BY InitIInv, NextIInv, PTL DEF Spec

-----------------------------------------------------------------------------
(* Commits, tags, trees, runs and packages stay well-formed, whatever is      *)
(* cloned, copied, built or run again.                                        *)
THEOREM VersioningTypeOK == Spec => []TypeOK
<1>1. IInv => TypeOK
  BY DEF IInv
<1> QED BY <1>1, InvAlways, PTL

(* Only the commit that carries staging-X is ever published as X (the publish *)
(* job's comparison of the built version with the tag).                       *)
THEOREM VersioningPublishedAsTagged == Spec => []PublishedAsTagged
<1>1. IInv => PublishedAsTagged
  BY DEF IInv
<1> QED BY <1>1, InvAlways, PTL

(* git describe can only have preferred another staging tag of the commit     *)
(* when a run is refused.                                                     *)
THEOREM VersioningRefusedOnlyIfShared == Spec => []RefusedOnlyIfShared
<1>1. IInv => RefusedOnlyIfShared
  BY DEF IInv, JobsSound, JobSound, RefusedOnlyIfShared
<1> QED BY <1>1, InvAlways, PTL

(* Two sources of one version are one commit and, unless they were changed    *)
(* outside a checkout or named by a directory, the same (get_versions); so    *)
(* are two checkouts in any style that names the commit (render).             *)
THEOREM VersioningIdentifiesSource == Spec => []VersionIdentifiesSource
<1>1. ASSUME IInv, NEW s \in Slot, NEW t \in Slot,
             BuildVersion(tree[s]) = BuildVersion(tree[t]), BuildVersion(tree[s]) # Unknown,
             ~ByName(tree[s]), ~ByName(tree[t])
      PROVE  /\ tree[s].commit = tree[t].commit
             /\ \/ tree[s].edited = tree[t].edited
                \/ tree[s].touched \/ tree[t].touched
  <2>1. /\ tree[s] \in Tree /\ Sound(tree[s], tag["staging"])
        /\ tree[t] \in Tree /\ Sound(tree[t], tag["staging"])
    BY <1>1 DEF IInv, TypeOK, TreesSound
  <2> DEFINE v == BuildVersion(tree[s])
  <2>2. Identifies(v, tree[s], tag["staging"])
    BY <1>1, <2>1, SoundVersion
  <2>3. Identifies(v, tree[t], tag["staging"])
    BY <1>1, <2>1, SoundVersion
  <2>4. tree[s].commit \in 1..MaxCommit /\ tree[t].commit \in 1..MaxCommit
    BY <2>1 DEF Tree
  <2> HIDE DEF v
  <2>5. PICK e \in BOOLEAN : (tree[s].touched \/ e = tree[s].edited)
                             /\ Encodes(v, tree[s].commit, e, tag["staging"])
    BY <2>2 DEF Identifies
  <2>6. PICK f \in BOOLEAN : (tree[t].touched \/ f = tree[t].edited)
                             /\ Encodes(v, tree[t].commit, f, tag["staging"])
    BY <2>3 DEF Identifies
  <2>7. tree[s].commit = tree[t].commit /\ e = f
    BY <2>4, <2>5, <2>6, EncodesApart
  <2> QED BY <2>5, <2>6, <2>7
<1>2. ASSUME IInv, NEW s \in Slot, NEW t \in Slot, NEW style \in Naming,
             tree[s].kind = "checkout", tree[t].kind = "checkout",
             Render(GitPieces(tree[s].git, BuildPrefix), style)
               = Render(GitPieces(tree[t].git, BuildPrefix), style)
      PROVE  tree[s].git.commit = tree[t].git.commit
             /\ tree[s].git.edited = tree[t].git.edited
  <2> DEFINE p == GitPieces(tree[s].git, BuildPrefix)
             q == GitPieces(tree[t].git, BuildPrefix)
  <2>1. /\ tree[s].git \in Git /\ CheckoutSound(tree[s], tag["staging"])
        /\ tree[t].git \in Git /\ CheckoutSound(tree[t], tag["staging"])
    BY <1>2 DEF IInv, TypeOK, TreesSound, Sound, Tree
  <2>2. BuildPrefix \in Prefix
    BY DEF BuildPrefix, Prefix
  <2>3. p \in Pieces /\ q \in Pieces
    BY <2>1, <2>2, PiecesType
  <2>4. Placed(p, tag["staging"]) /\ Placed(q, tag["staging"])
    BY <1>2, <2>1 DEF CheckoutSound
  <2>5. p.commit = tree[s].git.commit /\ q.commit = tree[t].git.commit
    BY DEF GitPieces
  <2>6. p.dirty = tree[s].git.edited
    BY DEF GitPieces
  <2>7. q.dirty = tree[t].git.edited
    BY DEF GitPieces
  <2> HIDE DEF p, q
  <2>8. p.commit = q.commit /\ p.dirty = q.dirty
    BY <1>2, <2>3, <2>4, NamingInjective DEF p, q
  <2>9. tree[s].git.edited = tree[t].git.edited
    BY <2>6, <2>7, <2>8
  <2> QED BY <2>5, <2>8, <2>9
<1>3. IInv => VersionIdentifiesSource
  BY <1>1, <1>2 DEF VersionIdentifiesSource
<1> QED BY <1>3, InvAlways, PTL

(* What was built keeps its version (the file written by build_py and sdist   *)
(* comes before git and before the committed prefix).                         *)
THEOREM VersioningReportsItsLabel == Spec => []ReportsItsLabel
<1>1. ASSUME IInv, NEW s \in Slot, tree[s].kind \in {"sdist", "installed"}
      PROVE  \A prefix : VersionOf(tree[s], prefix) = tree[s].label
  <2>1. tree[s].file = Short(tree[s].label)
    BY <1>1 DEF IInv, TreesSound, Sound, Labelled
  <2>2. tree[s].file.kind = "short" /\ tree[s].file.version = tree[s].label
    BY <2>1 DEF Short, Long
  <2> QED BY <2>2 DEF VersionOf
<1>2. IInv => ReportsItsLabel
  BY <1>1 DEF ReportsItsLabel, RuntimeVersion, BuildVersion
<1> QED BY <1>2, InvAlways, PTL
=============================================================================

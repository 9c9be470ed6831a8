------------------------------ MODULE Versioning ------------------------------
(* The version of a source tree, a package and a running installation:        *)
(* versioneer's cascade from expanded keywords to `git describe`, at build    *)
(* time (src/versioneer.py, configured in src/pyproject.toml) and at run time *)
(* (src/toksearch_d3d/_version.py), and the build and publish jobs of         *)
(* src/.github/workflows/conda_build.yaml that name a conda package by it.    *)
(*                                                                            *)
(* A version string is the record of what it says; a name of a tag is a       *)
(* number, in the order in which the strings sort.  No name has a ".post".    *)
(* External: git.  Commits are in a line, tags stay where they were pushed,   *)
(* and describe takes any of the matching tags nearest to the commit.         *)
EXTENDS Integers, FiniteSets, FiniteSetsExt

CONSTANTS MaxName,   \* names of tags: 1..MaxName
          Numbered,  \* those that start with a digit
          MaxCommit, \* bound: commits
          Released,  \* bound: those that get a release tag
          Slot       \* directories with a source tree or an installation

Name == 1..MaxName
Prefix == {"staging", "release"}
ASSUME BoundAssumption == MaxName \in Nat /\ MaxCommit \in Nat \ {0}
ASSUME NameAssumption == Numbered \subseteq Name /\ Released \subseteq Name

(* Faulty variant: the build, too, reads the tags of promotions.              *)
PromotionPrefix == "release"

(* tag_prefix of [tool.versioneer] in pyproject.toml, and the one committed   *)
(* in _version.py; both render in the same style.                             *)
BuildPrefix == "staging"
RuntimePrefix == "release"
Style == "pep440"
Styles == {"pep440", "pep440-branch", "pep440-pre", "pep440-post",
           "pep440-post-branch", "pep440-old", "git-describe", "git-describe-long"}

VARIABLES head, \* the latest commit
          tag,  \* tag[prefix][name]: the commit it is on, 0 before it is pushed
          tree, \* what is in each directory
          job,  \* the workflow run of each staging tag
          published \* packages uploaded: the tag of the run, and what was built

vars == <<head, tag, tree, job, published>>

-----------------------------------------------------------------------------
(* base: a name, 0 in "0+untagged...", -1 in "0+unknown"; -1 and 0: no part.  *)
Version == [base : -1..MaxName, post : -1..MaxCommit, dev : -1..MaxCommit,
            distance : -1..MaxCommit, commit : 0..MaxCommit, dirty : BOOLEAN]
Plain(n) == [base |-> n, post |-> -1, dev |-> -1, distance |-> -1, commit |-> 0,
             dirty |-> FALSE]
Unknown == Plain(-1)

(* What describe says of a checkout, for the tags of one prefix.              *)
Pieces == [tag : 0..MaxName, distance : 0..MaxCommit, commit : 1..MaxCommit,
           dirty : BOOLEAN]
Exact(p) == p.tag # 0 /\ p.distance = 0 /\ ~p.dirty

(* Faulty variant: uncommitted changes are not told.                          *)
RenderWithoutDirty(p) ==
    IF p.tag # 0 /\ p.distance = 0 THEN Plain(p.tag)
    ELSE [Plain(p.tag) EXCEPT !.distance = p.distance, !.commit = p.commit]

RenderPep440(p) ==
    IF Exact(p) THEN Plain(p.tag)
    ELSE [Plain(p.tag) EXCEPT !.distance = p.distance, !.commit = p.commit,
                              !.dirty = p.dirty]
(* The branch styles mark what is not built from master; there is only main.  *)
RenderPep440Branch(p) ==
    IF Exact(p) THEN Plain(p.tag) ELSE [RenderPep440(p) EXCEPT !.dev = 0]
RenderPep440Pre(p) ==
    IF p.tag # 0 /\ p.distance = 0 THEN Plain(p.tag)
    ELSE [Plain(p.tag) EXCEPT !.post = 0, !.dev = p.distance]
RenderPep440Old(p) ==
    IF Exact(p) THEN Plain(p.tag)
    ELSE [Plain(p.tag) EXCEPT !.post = p.distance, !.dev = IF p.dirty THEN 0 ELSE -1]
RenderPep440Post(p) ==
    IF Exact(p) THEN Plain(p.tag) ELSE [RenderPep440Old(p) EXCEPT !.commit = p.commit]
RenderPep440PostBranch(p) ==
    IF Exact(p) THEN Plain(p.tag)
    ELSE [Plain(p.tag) EXCEPT !.post = p.distance, !.dev = 0, !.commit = p.commit,
                              !.dirty = p.dirty]
RenderGitDescribeLong(p) ==
    [Plain(p.tag) EXCEPT !.distance = IF p.tag # 0 THEN p.distance ELSE -1,
                         !.commit = p.commit, !.dirty = p.dirty]
RenderGitDescribe(p) ==
    IF p.tag # 0 /\ p.distance = 0 THEN [Plain(p.tag) EXCEPT !.dirty = p.dirty]
                                   ELSE RenderGitDescribeLong(p)

Render(p, style) ==
    CASE style = "pep440"             -> RenderPep440(p)
      [] style = "pep440-branch"      -> RenderPep440Branch(p)
      [] style = "pep440-pre"         -> RenderPep440Pre(p)
      [] style = "pep440-post"        -> RenderPep440Post(p)
      [] style = "pep440-post-branch" -> RenderPep440PostBranch(p)
      [] style = "pep440-old"         -> RenderPep440Old(p)
      [] style = "git-describe"       -> RenderGitDescribe(p)
      [] style = "git-describe-long"  -> RenderGitDescribeLong(p)

-----------------------------------------------------------------------------
(* The tags of a prefix that describe may take for commit c of a clone with   *)
(* the commits from `since` on; 0 if there is none.                           *)
Matching(prefix, since, c) == {n \in Numbered : tag[prefix][n] \in since..c}
Nearest(prefix, since, c) ==
    LET all == Matching(prefix, since, c) IN
    IF all = {} THEN {0}
    ELSE {n \in all : \A m \in all : tag[prefix][m] <= tag[prefix][n]}

(* Faulty variant: a commit without a tag counts one too many before it.      *)
DistanceOneMore(prefix, n, since, c) ==
    IF n = 0 THEN c - since + 2 ELSE c - tag[prefix][n]

Distance(prefix, n, since, c) == IF n = 0 THEN c - since + 1 ELSE c - tag[prefix][n]

(* A repository as git sees it from a directory, or none.                     *)
Git == [commit : 1..MaxCommit, edited : BOOLEAN, nearest : [Prefix -> 0..MaxName],
        distance : [Prefix -> 0..MaxCommit]]
NoGit == [commit |-> 1, edited |-> FALSE, nearest |-> [x \in Prefix |-> 0],
          distance |-> [x \in Prefix |-> 0]]
UnderGit(git) == git # NoGit

(* _version.py: as committed; with the keywords git archive expands; or short,*)
(* with the version written into it.                                          *)
Long == [kind |-> "long", refs |-> {}, version |-> Unknown]
Keywords(refs) == [Long EXCEPT !.kind = "keywords", !.refs = refs]
Short(v) == [Long EXCEPT !.kind = "short", !.version = v]
File == [kind : {"long", "keywords", "short"}, refs : SUBSET (Prefix \X Name),
         version : Version]

(* touched: edited at some time when it was no checkout.                      *)
(* label: the version in an installation's metadata or an sdist's name.       *)
(* dir: the version in the name of the directory, or of one of the two above; *)
(* byname: it was built under a version taken from there.                     *)
Tree == [kind : {"none", "checkout", "archive", "copy", "sdist", "installed"},
         commit : 1..MaxCommit, edited : BOOLEAN, touched : BOOLEAN, git : Git,
         file : File, label : Version, dir : Version, byname : BOOLEAN]
Empty == [kind |-> "none", commit |-> 1, edited |-> FALSE, touched |-> FALSE,
          git |-> NoGit, file |-> Long, label |-> Unknown, dir |-> Unknown,
          byname |-> FALSE]

(* git_versions_from_keywords: the first, in string order, of the tags that   *)
(* were on the commit when it was archived.                                   *)
FromKeywords(refs, prefix) ==
    LET names == {n \in Numbered : <<prefix, n>> \in refs} IN
    IF names = {} THEN Unknown ELSE Plain(Min(names))

GitPieces(git, prefix) ==
    [tag |-> git.nearest[prefix], distance |-> git.distance[prefix],
     commit |-> git.commit, dirty |-> git.edited]

(* Unknown, as get_versions ends, if no directory is named with the prefix.   *)
FromParentDir(t) == t.dir

(* Faulty variant: git is asked before the file is looked into.               *)
VersionVcsFirst(t, prefix) ==
    IF t.file.kind = "keywords" THEN FromKeywords(t.file.refs, prefix)
    ELSE IF UnderGit(t.git) THEN Render(GitPieces(t.git, prefix), Style)
    ELSE IF t.file.kind = "short" THEN t.file.version
    ELSE FromParentDir(t)

(* The first source that applies: expanded keywords, though they name no tag; *)
(* the version in the file; git; the name of the directory.                   *)
VersionOf(t, prefix) ==
    IF t.file.kind = "keywords" THEN FromKeywords(t.file.refs, prefix)
    ELSE IF t.file.kind = "short" THEN t.file.version
    ELSE IF UnderGit(t.git) THEN Render(GitPieces(t.git, prefix), Style)
    ELSE FromParentDir(t)

BuildVersion(t) == VersionOf(t, BuildPrefix)
RuntimeVersion(t) == VersionOf(t, RuntimePrefix)

(* Only the name of a directory says, or said, which version this is.         *)
ByName(t) == \/ t.byname
             \/ t.file.kind = "long" /\ ~UnderGit(t.git) /\ t.dir # Unknown

-----------------------------------------------------------------------------
NoJob == [pc |-> "none", version |-> Unknown, commit |-> 1]
Job == [pc : {"none", "queued", "built", "published", "refused"},
        version : Version, commit : 1..MaxCommit]

Init ==
    /\ head = 1
    /\ tag = [x \in Prefix |-> [n \in Name |-> 0]]
    /\ tree = [s \in Slot |-> Empty]
    /\ job = [n \in Name |-> NoJob]
    /\ published = {}

Commit ==
    /\ head < MaxCommit /\ head' = head + 1
    /\ UNCHANGED <<tag, tree, job, published>>

(* A staging tag starts a workflow run, on whatever commit it is pushed.      *)
PushTag(prefix, n) ==
    /\ tag[prefix][n] = 0 /\ (prefix = "release" => n \in Released)
    /\ \E c \in 1..head : tag' = [tag EXCEPT ![prefix][n] = c]
    /\ job' = IF prefix = "staging" THEN [job EXCEPT ![n].pc = "queued"] ELSE job
    /\ UNCHANGED <<head, tree, published>>

(* A clone with all of the history, or with its last commit only, has the     *)
(* tags that are there by then.                                               *)
Checkout(c, since, nearest) ==
    [Empty EXCEPT !.kind = "checkout", !.commit = c,
       !.git = [commit |-> c, edited |-> FALSE, nearest |-> nearest,
                distance |-> [x \in Prefix |-> Distance(x, nearest[x], since, c)]]]
Clone(s) ==
    /\ tree[s] = Empty
    /\ \E c \in 1..head : \E since \in {1, c} : \E nearest \in [Prefix -> 0..MaxName] :
         /\ \A x \in Prefix : nearest[x] \in Nearest(x, since, c)
         /\ tree' = [tree EXCEPT ![s] = Checkout(c, since, nearest)]
    /\ UNCHANGED <<head, tag, job, published>>

(* Git sees changes to a checkout; nothing sees those to any other tree.      *)
Edited(t) == IF t.kind = "checkout"
             THEN [t EXCEPT !.edited = TRUE, !.git.edited = TRUE]
             ELSE [t EXCEPT !.edited = TRUE, !.touched = TRUE]
Edit(s) ==
    /\ tree[s].kind # "none"
    /\ tree' = [tree EXCEPT ![s] = Edited(tree[s])]
    /\ UNCHANGED <<head, tag, job, published>>

(* git archive, or a download of the host's tarball.                          *)
Archive(s) ==
    /\ tree[s] = Empty
    /\ \E c \in 1..head :
         tree' = [tree EXCEPT ![s] = [Empty EXCEPT !.kind = "archive", !.commit = c,
                    !.file = Keywords({x \in Prefix \X Name : tag[x[1]][x[2]] = c})]]
    /\ UNCHANGED <<head, tag, job, published>>

(* A copy of the files without the repository, into any directory.            *)
Copied(t, dir) == [t EXCEPT !.kind = "copy", !.git = NoGit, !.dir = dir]
Copy(s, t) ==
    /\ tree[s] # Empty /\ tree[t] = Empty
    /\ \E dir \in {Unknown} \cup {Plain(n) : n \in Name} :
         tree' = [tree EXCEPT ![t] = Copied(tree[s], dir)]
    /\ UNCHANGED <<head, tag, job, published>>

(* write_to_version_file                                                      *)
WriteToVersionFile(v) == Short(v)

(* What is built from a tree: an sdist, in a directory named by its version,  *)
(* or an installation, away from any repository or inside the tree's own.     *)
Built(t, kind, git) ==
    LET v == BuildVersion(t) IN
    [t EXCEPT !.kind = kind, !.git = git, !.file = WriteToVersionFile(v), !.label = v,
              !.dir = IF kind = "sdist" THEN v ELSE Unknown, !.byname = ByName(t)]
Place(s, t, kind) ==
    /\ tree[s].kind \notin {"none", "installed"} /\ tree[t] = Empty
    /\ \E git \in {NoGit, tree[s].git} : tree' = [tree EXCEPT ![t] = Built(tree[s], kind, git)]
    /\ UNCHANGED <<head, tag, job, published>>
Sdist(s, t) == Place(s, t, "sdist")
Install(s, t) == Place(s, t, "installed")

-----------------------------------------------------------------------------
(* The build job checks out the tag with all of its history and computes      *)
(* PKG_VERSION there; a failed step, of it or of the tests, can be run again. *)
Build(n) ==
    /\ job[n].pc = "queued"
    /\ LET c == tag["staging"][n] IN
         \E near \in Nearest(BuildPrefix, 1, c) :
           LET p == [tag |-> near, distance |-> Distance(BuildPrefix, near, 1, c),
                     commit |-> c, dirty |-> FALSE] IN
           job' = [job EXCEPT ![n] = [pc |-> "built", version |-> Render(p, Style),
                                      commit |-> c]]
    /\ UNCHANGED <<head, tag, tree, published>>

Package(n) == [tag |-> n, version |-> job[n].version, commit |-> job[n].commit]

(* Faulty variant: whatever was built is uploaded.                            *)
PublishAnything(n) ==
    /\ job[n].pc = "built"
    /\ job' = [job EXCEPT ![n] = [NoJob EXCEPT !.pc = "published"]]
    /\ published' = published \cup {Package(n)}
    /\ UNCHANGED <<head, tag, tree>>

(* The built version must match the tag.                                      *)
Publish(n) ==
    /\ job[n].pc = "built"
    /\ \/ /\ job[n].version = Plain(n)
          /\ job' = [job EXCEPT ![n] = [NoJob EXCEPT !.pc = "published"]]
          /\ published' = published \cup {Package(n)}
       \/ /\ job[n].version # Plain(n)
          /\ job' = [job EXCEPT ![n] = [NoJob EXCEPT !.pc = "refused"]]
          /\ UNCHANGED published
    /\ UNCHANGED <<head, tag, tree>>

Rerun(n) ==
    /\ job[n].pc \in {"built", "published", "refused"}
    /\ job' = [job EXCEPT ![n] = [NoJob EXCEPT !.pc = "queued"]]
    /\ UNCHANGED <<head, tag, tree, published>>

Next ==
    \/ Commit
    \/ \E prefix \in Prefix, n \in Name : PushTag(prefix, n)
    \/ \E s \in Slot : Clone(s) \/ Edit(s) \/ Archive(s)
    \/ \E s, t \in Slot : Copy(s, t) \/ Sdist(s, t) \/ Install(s, t)
    \/ \E n \in Name : Build(n) \/ Publish(n) \/ Rerun(n)

Spec == Init /\ [][Next]_vars

-----------------------------------------------------------------------------
TypeOK ==
    /\ head \in 1..MaxCommit
    /\ tag \in [Prefix -> [Name -> 0..MaxCommit]]
    /\ tree \in [Slot -> Tree]
    /\ job \in [Name -> Job]
    /\ published \subseteq [tag : Name, version : Version, commit : 1..MaxCommit]

(* A package published for staging-X is called X and was built, unchanged,    *)
(* from the commit that carries staging-X, however many tags that commit has, *)
(* whenever they were pushed and however often the run is repeated.  So no    *)
(* two commits are ever published under one version.                          *)
PublishedAsTagged ==
    \A p \in published : /\ p.version = Plain(p.tag)
                         /\ p.commit = tag["staging"][p.tag]

(* A run is refused only when its commit carries another staging tag, or its  *)
(* own is not a number: a fresh commit with a fresh tag is always published.  *)
RefusedOnlyIfShared ==
    \A n \in Name : job[n].pc = "refused" =>
        \/ n \notin Numbered
        \/ \E m \in Name \ {n} : tag["staging"][m] = tag["staging"][n]

(* A version identifies its source: two trees that would be built under the   *)
(* same version, checkouts, shallow ones too, archives, copies, sdists or     *)
(* installations, hold the same commit, with changes or without.  But no      *)
(* version tells changes made outside a checkout, and one that comes from the *)
(* name of a directory tells nothing.  In any style that names the commit,    *)
(* two checkouts of one version are the same, too.                            *)
Naming == Styles \ {"pep440-pre", "pep440-old"}
VersionIdentifiesSource ==
    \A s, t \in Slot :
        /\ BuildVersion(tree[s]) = BuildVersion(tree[t]) /\ BuildVersion(tree[s]) # Unknown
             /\ ~ByName(tree[s]) /\ ~ByName(tree[t])
             => /\ tree[s].commit = tree[t].commit
                /\ \/ tree[s].edited = tree[t].edited
                   \/ tree[s].touched \/ tree[t].touched
        /\ \A style \in Naming :
             tree[s].kind = "checkout" /\ tree[t].kind = "checkout"
               /\ Render(GitPieces(tree[s].git, BuildPrefix), style)
                    = Render(GitPieces(tree[t].git, BuildPrefix), style)
               => tree[s].git.commit = tree[t].git.commit
                    /\ tree[s].git.edited = tree[t].git.edited

(* What was built reports, at run time and when it is built again, the        *)
(* version it was labelled with, though tags were pushed since, its           *)
(* repository is gone or it lies inside another one.                          *)
ReportsItsLabel ==
    \A s \in Slot : tree[s].kind \in {"sdist", "installed"} =>
        RuntimeVersion(tree[s]) = tree[s].label /\ BuildVersion(tree[s]) = tree[s].label
=============================================================================

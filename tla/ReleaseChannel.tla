---------------------------- MODULE ReleaseChannel ----------------------------
(* The labels of one package's files on the conda channel, and the workflow   *)
(* jobs that move them: publish (upload to staging, retire the other          *)
(* candidates to attic) for a staging tag, promote (staging to main) for a    *)
(* release tag, from src/.github/scripts/channel_tools.py and                 *)
(* src/.github/workflows/conda_build.yaml.                                    *)
(*                                                                            *)
(* Nothing serialises the jobs: the workflow has no concurrency group.  Each  *)
(* request to the server is one step; a job may fail before any of them.      *)
EXTENDS Integers, FiniteSets

CONSTANTS Version,   \* version numbers, in the order the script sorts them
          Basename,  \* the files of a version, one for each platform
          MaxJobs,   \* bound: jobs at work at the same time
          MaxFailures \* bound: jobs that break off

ASSUME VersionAssumption == Version \subseteq Nat /\ IsFiniteSet(Version)
ASSUME BasenameAssumption == Basename # {}
ASSUME BoundAssumption == MaxJobs \in Nat \ {0} /\ MaxFailures \in Nat

VARIABLES labels,   \* labels[v][b]: the labels of a file; none if unpublished
          jobs,     \* the state of each job
          archived, \* files whose bytes a retire step downloaded
          failures,
          overlapped \* history: whether two jobs have been at work at once

vars == <<labels, jobs, archived, failures, overlapped>>

Label == {"staging", "main", "attic"}
Channel == [Version -> [Basename -> SUBSET Label]]
Job == {"publish", "promote"} \X Version
KindOf(j) == j[1]
VersionOf(j) == j[2]

Over == {"idle", "ok", "refused", "error"}
Pc == Over \cup {"upload", "list", "next", "before", "post", "delete", "after"}
JobState == [pc : Pc,
             todo : SUBSET Version,   \* versions this retire still looks at
             seen : Channel,          \* their files in the listing it made
             moving : Version,        \* the version being relabelled
             before : Channel,        \* relabel's listing before the move
             targets : SUBSET Basename, \* the files it moves
             left : SUBSET Basename,  \* those it has not finished
             file : Basename]         \* and the one it works on

Nothing == [v \in Version |-> [b \in Basename |-> {}]]
NewJob(j, pc) ==
    [pc |-> pc, todo |-> {}, seen |-> Nothing, moving |-> VersionOf(j),
     before |-> Nothing, targets |-> {}, left |-> {},
     file |-> CHOOSE b \in Basename : TRUE]

Init ==
    /\ labels = Nothing
    /\ jobs = [j \in Job |-> NewJob(j, "idle")]
    /\ archived = {} /\ failures = 0 /\ overlapped = FALSE

Running == {j \in Job : jobs[j].pc \notin Over}
Goto(j, pc) == jobs' = [jobs EXCEPT ![j].pc = pc]
End(j, pc) == jobs' = [jobs EXCEPT ![j] = NewJob(j, pc)]
To(j) == IF KindOf(j) = "promote" THEN "main" ELSE "attic"
Published(v) == \A b \in Basename : labels[v][b] # {}
On(channel, v) == UNION {channel[v][b] : b \in Basename}

(* A staging tag starts publish; a release tag is pushed for a candidate all  *)
(* of whose files are published; a promote job that failed may be run again.  *)
Tag(j) ==
    /\ Cardinality(Running) < MaxJobs
    /\ \/ KindOf(j) = "publish" /\ jobs[j].pc = "idle" /\ Goto(j, "upload")
       \/ /\ KindOf(j) = "promote" /\ jobs[j].pc \in {"idle", "error"}
          /\ Published(VersionOf(j)) /\ Goto(j, "before")
    /\ overlapped' = (overlapped \/ Running # {})
    /\ UNCHANGED <<labels, archived, failures>>

(* Faulty variant: a pre-release gets a label of its own.                     *)
UploadPrerelease(j) ==
    /\ jobs[j].pc = "upload"
    /\ \/ \E b \in Basename :
            /\ labels[VersionOf(j)][b] = {}
            /\ labels' = [labels EXCEPT ![VersionOf(j)][b] = {"rc"}]
            /\ UNCHANGED jobs
       \/ Published(VersionOf(j)) /\ Goto(j, "list") /\ UNCHANGED labels
    /\ UNCHANGED <<archived, failures, overlapped>>

Upload(j) ==
    /\ jobs[j].pc = "upload"
    /\ \/ \E b \in Basename :
            /\ labels[VersionOf(j)][b] = {}
            /\ labels' = [labels EXCEPT ![VersionOf(j)][b] = {"staging"}]
            /\ UNCHANGED jobs
       \/ Published(VersionOf(j)) /\ Goto(j, "list") /\ UNCHANGED labels
    /\ UNCHANGED <<archived, failures, overlapped>>

(* Retire lists the package once and looks at every other version on staging. *)
List(j) ==
    /\ jobs[j].pc = "list"
    /\ LET others == {v \in Version \ {VersionOf(j)} : "staging" \in On(labels, v)} IN
         jobs' = [jobs EXCEPT ![j].pc = "next", ![j].todo = others,
                              ![j].seen = [v \in Version |-> IF v \in others
                                             THEN labels[v] ELSE Nothing[v]]]
    /\ UNCHANGED <<labels, archived, failures, overlapped>>

(* The files of v in the listing are downloaded and checked.                  *)
Archive(j, v) == {<<v, b>> : b \in {c \in Basename : jobs[j].seen[v][c] # {}}}

(* Faulty variant: a version is relabelled before its bytes are archived.     *)
RetireUnarchived(j) ==
    /\ jobs[j].pc = "next"
    /\ \/ jobs[j].todo = {} /\ End(j, "ok")
       \/ \E v \in jobs[j].todo :
            /\ \A w \in jobs[j].todo : v <= w
            /\ IF "main" \in On(jobs[j].seen, v)
               THEN End(j, "refused")
               ELSE jobs' = [jobs EXCEPT ![j].pc = "before", ![j].moving = v,
                                         ![j].todo = @ \ {v},
                                         ![j].seen[v] = Nothing[v]]
    /\ UNCHANGED <<labels, archived, failures, overlapped>>

(* The next one, in version order: refused if it is on main as well, else     *)
(* every file of the listing is archived and the version relabelled.          *)
Retire(j) ==
    /\ jobs[j].pc = "next"
    /\ \/ jobs[j].todo = {} /\ End(j, "ok") /\ UNCHANGED archived
       \/ \E v \in jobs[j].todo :
            /\ \A w \in jobs[j].todo : v <= w
            /\ \/ /\ "main" \in On(jobs[j].seen, v)
                  /\ End(j, "refused") /\ UNCHANGED archived
               \/ /\ "main" \notin On(jobs[j].seen, v)
                  /\ archived' = archived \cup Archive(j, v)
                  /\ jobs' = [jobs EXCEPT ![j].pc = "before", ![j].moving = v,
                                          ![j].todo = @ \ {v},
                                          ![j].seen[v] = Nothing[v]]
    /\ UNCHANGED <<labels, failures, overlapped>>

(* Relabel reads the labels again and takes the files that are on staging.    *)
Before(j) ==
    LET targets == {b \in Basename : "staging" \in labels[jobs[j].moving][b]} IN
    /\ jobs[j].pc = "before"
    /\ \/ targets = {} /\ End(j, "error")
       \/ /\ targets # {}
          /\ jobs' = [jobs EXCEPT ![j].pc = "post", ![j].before = labels,
                                  ![j].targets = targets, ![j].left = targets]
    /\ UNCHANGED <<labels, archived, failures, overlapped>>

(* Faulty variants: the request names no version, so the server takes every   *)
(* file on the label; or the old label goes before the new one is there.      *)
PostEverything(j) ==
    /\ jobs[j].pc = "post"
    /\ labels' = [v \in Version |-> [b \in Basename |->
                    IF "staging" \in labels[v][b] THEN labels[v][b] \cup {To(j)}
                                                 ELSE labels[v][b]]]
    /\ \E b \in jobs[j].left :
         jobs' = [jobs EXCEPT ![j].pc = "delete", ![j].file = b]
    /\ UNCHANGED <<archived, failures, overlapped>>
PostAfterDelete(j) ==
    /\ jobs[j].pc = "post"
    /\ \E b \in jobs[j].left :
         /\ labels' = [labels EXCEPT ![jobs[j].moving][b] = @ \ {"staging"}]
         /\ jobs' = [jobs EXCEPT ![j].pc = "delete", ![j].file = b]
    /\ UNCHANGED <<archived, failures, overlapped>>

(* A file gets its new label before it loses the old one; deleting a label    *)
(* that another job has deleted already is either an error or nothing.        *)
Post(j) ==
    /\ jobs[j].pc = "post"
    /\ \E b \in jobs[j].left :
         /\ labels' = [labels EXCEPT ![jobs[j].moving][b] = @ \cup {To(j)}]
         /\ jobs' = [jobs EXCEPT ![j].pc = "delete", ![j].file = b]
    /\ UNCHANGED <<archived, failures, overlapped>>

(* Faulty variants: the old label stays, or the loop stops after one file.    *)
DeleteNothing(j) ==
    /\ jobs[j].pc = "delete"
    /\ LET left == jobs[j].left \ {jobs[j].file} IN
         jobs' = [jobs EXCEPT ![j].left = left,
                              ![j].pc = IF left = {} THEN "after" ELSE "post"]
    /\ UNCHANGED <<labels, archived, failures, overlapped>>
DeleteFirstOnly(j) ==
    /\ jobs[j].pc = "delete"
    /\ labels' = [labels EXCEPT ![jobs[j].moving][jobs[j].file] = @ \ {"staging"}]
    /\ jobs' = [jobs EXCEPT ![j].left = {}, ![j].targets = {jobs[j].file},
                            ![j].pc = "after"]
    /\ UNCHANGED <<archived, failures, overlapped>>

Delete(j) ==
    LET left == jobs[j].left \ {jobs[j].file} IN
    /\ jobs[j].pc = "delete"
    /\ \/ /\ labels' = [labels EXCEPT
                           ![jobs[j].moving][jobs[j].file] = @ \ {"staging"}]
          /\ jobs' = [jobs EXCEPT ![j].left = left,
                                  ![j].pc = IF left = {} THEN "after" ELSE "post"]
       \/ /\ "staging" \notin labels[jobs[j].moving][jobs[j].file]
          /\ End(j, "error") /\ UNCHANGED labels
    /\ UNCHANGED <<archived, failures, overlapped>>

(* The labels are read back: the files moved must have moved, and no file of  *)
(* another version may have changed.                                          *)
Moved(j) ==
    \A b \in jobs[j].targets : /\ To(j) \in labels[jobs[j].moving][b]
                               /\ "staging" \notin labels[jobs[j].moving][b]
Collateral(j) ==
    \E v \in Version \ {jobs[j].moving} : labels[v] # jobs[j].before[v]
After(j) ==
    /\ jobs[j].pc = "after"
    /\ \/ Moved(j) /\ ~Collateral(j)
          /\ IF KindOf(j) = "promote" THEN End(j, "ok") ELSE Goto(j, "next")
       \/ (~Moved(j) \/ Collateral(j)) /\ End(j, "error")
    /\ UNCHANGED <<labels, archived, failures, overlapped>>

(* A request, a download or its checksum fails, or the runner is lost.        *)
BreakOff(j) ==
    /\ jobs[j].pc \notin Over /\ failures < MaxFailures
    /\ failures' = failures + 1
    /\ End(j, "error")
    /\ UNCHANGED <<labels, archived, overlapped>>

Next ==
    \E j \in Job : \/ Tag(j) \/ Upload(j) \/ List(j) \/ Retire(j)
                   \/ Before(j) \/ Post(j) \/ Delete(j) \/ After(j)
                   \/ BreakOff(j)

Spec == Init /\ [][Next]_vars

-----------------------------------------------------------------------------
TypeOK ==
    /\ labels \in Channel
    /\ jobs \in [Job -> JobState]
    /\ archived \subseteq Version \X Basename
    /\ failures \in 0..MaxFailures /\ overlapped \in BOOLEAN

(* Only what a release tag asked for reaches main, whatever races or breaks.  *)
OnlyReleasedOnMain ==
    \A v \in Version :
        "main" \in On(labels, v) => jobs[<<"promote", v>>].pc # "idle"

(* A published file is always findable: a job that dies between two requests  *)
(* leaves it with two labels, never with none, and main is never taken away.  *)
NeverLost ==
    [][\A v \in Version, b \in Basename :
         /\ labels[v][b] # {} => labels'[v][b] # {}
         /\ "main" \in labels[v][b] => "main" \in labels'[v][b]]_vars

(* As long as jobs do not overlap, also after jobs broke off half-way:        *)
(* when a publish job succeeds, staging holds nothing but its version.        *)
OneCandidate ==
    [][\A v \in Version :
         jobs'[<<"publish", v>>].pc = "ok" /\ jobs[<<"publish", v>>].pc # "ok"
           /\ ~overlapped =>
            \A w \in Version \ {v} : "staging" \notin On(labels', w)]_vars

(* As long as jobs do not overlap, evidence is kept: what is filed in the     *)
(* attic was downloaded and checked.                                          *)
ArchivedBeforeAttic ==
    ~overlapped => \A v \in Version, b \in Basename :
                       "attic" \in labels[v][b] => <<v, b>> \in archived

(* A promotion that reports success put the whole version on main: whatever   *)
(* happens, and in any case as long as jobs neither overlap nor break off.    *)
MovedWhole ==
    \A v \in Version : jobs[<<"promote", v>>].pc = "ok" =>
        \A b \in Basename : "main" \in labels[v][b]
MovedWholeUndisturbed == ~overlapped /\ failures = 0 => MovedWhole

(* The same for retire, which never meets a candidate that is on main as well.*)
NeverRefusedUndisturbed ==
    ~overlapped /\ failures = 0 => \A j \in Job : jobs[j].pc # "refused"

(* The jobs do what they report, unless they overlap or break off: versions   *)
(* move whole, and none is refused.                                           *)
WholeUndisturbed == MovedWholeUndisturbed /\ NeverRefusedUndisturbed
=============================================================================

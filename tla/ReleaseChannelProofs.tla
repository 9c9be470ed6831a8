------------------------- MODULE ReleaseChannelProofs -------------------------
(* Proofs that only released versions reach main, that no published file is   *)
(* ever without a label, that jobs which do not overlap keep evidence of what *)
(* they retire and leave one candidate, and that those which do not break off *)
(* either move whole versions, for any versions, files, jobs and failures.    *)
EXTENDS ReleaseChannel, TLAPS

(* A promote job moves its own version, and while a file waits for its old    *)
(* label to be deleted it has its new one.                                    *)
JobsOK ==
    \A j \in Job :
        /\ KindOf(j) = "promote" => /\ jobs[j].moving = VersionOf(j)
                                    /\ jobs[j].pc \notin {"upload", "list", "next"}
        /\ jobs[j].pc = "delete" => To(j) \in labels[jobs[j].moving][jobs[j].file]

ChannelInv == TypeOK /\ JobsOK /\ OnlyReleasedOnMain

LEMMA ChooseFile == (CHOOSE b \in Basename : TRUE) \in Basename
  BY BasenameAssumption

LEMMA NewJobType ==
  ASSUME NEW j \in Job, NEW pc \in Pc
  PROVE  /\ NewJob(j, pc) \in JobState
         /\ NewJob(j, pc).moving = VersionOf(j) /\ NewJob(j, pc).pc = pc
  <1>1. VersionOf(j) \in Version
    BY DEF Job, VersionOf
  <1>2. Nothing \in Channel
    BY DEF Nothing, Channel
  <1>3. QED
    BY <1>1, <1>2, ChooseFile DEF NewJob, JobState

LEMMA ChannelInit == Init => ChannelInv
  <1> SUFFICES ASSUME Init PROVE ChannelInv
    OBVIOUS
  <1>1. labels \in Channel /\ \A v \in Version : On(labels, v) = {}
    BY DEF Init, Nothing, Channel, On
  <1>2. \A j \in Job : /\ jobs[j] \in JobState /\ jobs[j].pc = "idle"
                       /\ jobs[j].moving = VersionOf(j)
    BY NewJobType DEF Init, Pc, Over
  <1>3. jobs \in [Job -> JobState]
    BY <1>2 DEF Init
  <1>4. TypeOK
    <2>1. overlapped \in BOOLEAN
      BY DEF Init
    <2>2. archived \subseteq Version \X Basename /\ failures \in 0..MaxFailures
      BY BoundAssumption DEF Init
    <2>3. QED
      BY <1>1, <1>3, <2>1, <2>2 DEF TypeOK
  <1>5. QED
    BY <1>1, <1>2, <1>4 DEF ChannelInv, JobsOK, OnlyReleasedOnMain

(* Every step is one job's and leaves the others' state alone.                *)
LEMMA ChannelTypeStep ==
  ASSUME TypeOK, NEW j \in Job,
         Tag(j) \/ Upload(j) \/ List(j) \/ Retire(j) \/ Before(j) \/ Post(j)
           \/ Delete(j) \/ After(j) \/ BreakOff(j)
  PROVE  /\ TypeOK'
         /\ \A k \in Job \ {j} : jobs'[k] = jobs[k]
  <1> USE DEF TypeOK
  <1>0. VersionOf(j) \in Version /\ jobs[j] \in JobState /\ jobs[j].moving \in Version
    BY DEF Job, VersionOf, JobState
  <1>a. ASSUME NEW pc \in Pc, Goto(j, pc)
        PROVE  jobs' \in [Job -> JobState] /\ \A k \in Job \ {j} : jobs'[k] = jobs[k]
    BY <1>0, <1>a DEF Goto, JobState
  <1>b. ASSUME NEW pc \in Pc, End(j, pc)
        PROVE  jobs' \in [Job -> JobState] /\ \A k \in Job \ {j} : jobs'[k] = jobs[k]
    BY <1>b, NewJobType DEF End
  <1>c. To(j) \in Label
    BY DEF To, Label
  <1>1. CASE Tag(j)
    <2>1. overlapped' \in BOOLEAN
      BY <1>1 DEF Tag
    <2>2. jobs' \in [Job -> JobState] /\ \A k \in Job \ {j} : jobs'[k] = jobs[k]
      BY <1>1, <1>a DEF Tag, Pc, Over
    <2>3. QED
      BY <1>1, <2>1, <2>2 DEF Tag
  <1>2. CASE Upload(j)
    <2>1. labels' \in Channel
      <3>1. CASE UNCHANGED labels
        BY <3>1
      <3>2. CASE \E b \in Basename :
                   labels' = [labels EXCEPT ![VersionOf(j)][b] = {"staging"}]
        <4>1. {"staging"} \in SUBSET Label
          BY DEF Label
        <4>2. PICK b \in Basename :
                labels' = [labels EXCEPT ![VersionOf(j)][b] = {"staging"}]
          BY <3>2
        <4>3. labels \in [Version -> [Basename -> SUBSET Label]]
          BY DEF Channel
        <4>4. QED
          BY <1>0, <4>1, <4>2, <4>3 DEF Channel
      <3>3. QED
        BY <1>2, <3>1, <3>2 DEF Upload
    <2>2. QED
      BY <1>2, <1>a, <2>1 DEF Upload, Pc
  <1>3. CASE List(j)
    <2>1. {v \in Version \ {VersionOf(j)} : "staging" \in On(labels, v)} \in SUBSET Version
      OBVIOUS
    <2> DEFINE others == {v \in Version \ {VersionOf(j)} : "staging" \in On(labels, v)}
               seen == [v \in Version |-> IF v \in others THEN labels[v] ELSE Nothing[v]]
    <2>a. jobs' = [jobs EXCEPT ![j].pc = "next", ![j].todo = others, ![j].seen = seen]
      BY <1>3 DEF List
    <2>b. seen \in Channel
      BY DEF Channel, Nothing
    <2>c. others \in SUBSET Version
      BY <2>1
    <2> HIDE DEF others, seen
    <2>d. [jobs[j] EXCEPT !.pc = "next", !.todo = others, !.seen = seen] \in JobState
      BY <1>0, <2>b, <2>c DEF JobState, Pc
    <2>2. jobs' \in [Job -> JobState] /\ \A k \in Job \ {j} : jobs'[k] = jobs[k]
      BY <2>a, <2>d
    <2>3. QED
      BY <1>3, <2>2 DEF List
  <1>4. CASE Retire(j)
    <2>1. CASE End(j, "ok") /\ UNCHANGED archived
      BY <1>4, <1>b, <2>1 DEF Retire, Pc, Over
    <2>2. CASE End(j, "refused") /\ UNCHANGED archived
      BY <1>4, <1>b, <2>2 DEF Retire, Pc, Over
    <2>3. ASSUME NEW v \in jobs[j].todo,
                 archived' = archived \cup Archive(j, v),
                 jobs' = [jobs EXCEPT ![j].pc = "before", ![j].moving = v,
                                      ![j].todo = @ \ {v},
                                      ![j].seen[v] = Nothing[v]]
          PROVE  TypeOK' /\ \A k \in Job \ {j} : jobs'[k] = jobs[k]
      <3>1. v \in Version /\ jobs[j].todo \subseteq Version
        BY <1>0, <2>3 DEF JobState
      <3> DEFINE seen == [jobs[j].seen EXCEPT ![v] = Nothing[v]]
                 todo == jobs[j].todo \ {v}
      <3>a. seen \in Channel
        BY <1>0, <3>1 DEF JobState, Channel, Nothing
      <3>b. todo \in SUBSET Version
        BY <3>1
      <3>c. jobs' = [jobs EXCEPT ![j] = [jobs[j] EXCEPT !.pc = "before", !.moving = v,
                                                        !.todo = todo, !.seen = seen]]
        BY <1>0, <2>3 DEF JobState
      <3> HIDE DEF seen, todo
      <3>d. [jobs[j] EXCEPT !.pc = "before", !.moving = v, !.todo = todo, !.seen = seen]
              \in JobState
        BY <1>0, <3>1, <3>a, <3>b DEF JobState, Pc
      <3>2. jobs' \in [Job -> JobState] /\ \A k \in Job \ {j} : jobs'[k] = jobs[k]
        BY <3>c, <3>d
      <3>3. archived' \subseteq Version \X Basename
        BY <2>3, <3>1 DEF Archive
      <3>4. QED
        BY <1>4, <3>2, <3>3 DEF Retire
    <2>4. QED
      BY <1>4, <2>1, <2>2, <2>3 DEF Retire
  <1>5. CASE Before(j)
    <2>1. CASE End(j, "error")
      BY <1>5, <1>b, <2>1 DEF Before, Pc, Over
    <2>2. CASE ~End(j, "error")
      <3> DEFINE targets == {b \in Basename : "staging" \in labels[jobs[j].moving][b]}
      <3>1. jobs' = [jobs EXCEPT ![j].pc = "post", ![j].before = labels,
                                 ![j].targets = targets, ![j].left = targets]
        BY <1>5, <2>2 DEF Before
      <3>2. targets \in SUBSET Basename
        OBVIOUS
      <3> HIDE DEF targets
      <3>3. jobs' \in [Job -> JobState] /\ \A k \in Job \ {j} : jobs'[k] = jobs[k]
        BY <1>0, <3>1, <3>2 DEF JobState, Pc
      <3>4. QED
        BY <1>5, <3>3 DEF Before
    <2>3. QED
      BY <2>1, <2>2
  <1>6. CASE Post(j)
    <2>1. PICK b \in jobs[j].left :
            /\ labels' = [labels EXCEPT ![jobs[j].moving][b] = @ \cup {To(j)}]
            /\ jobs' = [jobs EXCEPT ![j].pc = "delete", ![j].file = b]
      BY <1>6 DEF Post
    <2>2. b \in Basename
      BY <1>0 DEF JobState
    <2>3. labels' \in Channel
      BY <1>0, <1>c, <2>1, <2>2 DEF Channel
    <2>4. jobs' \in [Job -> JobState] /\ \A k \in Job \ {j} : jobs'[k] = jobs[k]
      BY <1>0, <2>1, <2>2 DEF JobState, Pc
    <2>5. QED
      BY <1>6, <2>3, <2>4 DEF Post
  <1>7. CASE Delete(j)
    <2>1. CASE End(j, "error") /\ UNCHANGED labels
      BY <1>7, <1>b, <2>1 DEF Delete, Pc, Over
    <2>2. CASE ~(End(j, "error") /\ UNCHANGED labels)
      <3> DEFINE left == jobs[j].left \ {jobs[j].file}
                 pc == IF left = {} THEN "after" ELSE "post"
      <3>1. /\ labels' = [labels EXCEPT ![jobs[j].moving][jobs[j].file] = @ \ {"staging"}]
            /\ jobs' = [jobs EXCEPT ![j].left = left, ![j].pc = pc]
        BY <1>7, <2>2 DEF Delete
      <3>2. left \in SUBSET Basename /\ pc \in Pc
        BY <1>0 DEF JobState, Pc
      <3> HIDE DEF left, pc
      <3>3. jobs' \in [Job -> JobState] /\ \A k \in Job \ {j} : jobs'[k] = jobs[k]
        BY <1>0, <3>1, <3>2 DEF JobState
      <3>4. labels' \in Channel
        BY <1>0, <3>1 DEF Channel, JobState
      <3>5. QED
        BY <1>7, <3>3, <3>4 DEF Delete
    <2>3. QED
      BY <2>1, <2>2
  <1>8. CASE After(j)
    BY <1>8, <1>a, <1>b DEF After, Pc, Over
  <1>9. CASE BreakOff(j)
    BY <1>9, <1>b, BoundAssumption DEF BreakOff, Pc, Over
  <1>10. QED
    BY <1>1, <1>2, <1>3, <1>4, <1>5, <1>6, <1>7, <1>8, <1>9

(* Labels change in three ways only: a file is published, gains the label its *)
(* job moves it to, or loses staging while it has that label.                 *)
LabelGain(j) ==
    \E b \in Basename :
        labels' = [labels EXCEPT ![jobs[j].moving][b] = @ \cup {To(j)}]
LabelLoss(j) ==
    /\ jobs[j].pc = "delete"
    /\ labels' = [labels EXCEPT ![jobs[j].moving][jobs[j].file] = @ \ {"staging"}]
FirstLabel(j) ==
    \E b \in Basename : /\ labels[VersionOf(j)][b] = {}
                         /\ labels' = [labels EXCEPT ![VersionOf(j)][b] = {"staging"}]

Act(j) == \/ Tag(j) \/ Upload(j) \/ List(j) \/ Retire(j) \/ Before(j) \/ Post(j)
          \/ Delete(j) \/ After(j) \/ BreakOff(j)

LEMMA LabelChange ==
  ASSUME TypeOK, NEW j \in Job, Act(j)
  PROVE  \/ UNCHANGED labels
         \/ FirstLabel(j) \/ LabelLoss(j)
         \/ LabelGain(j) /\ jobs[j].pc = "post"
  <1>1. CASE Post(j)
    <2>1. jobs[j].left \subseteq Basename
      BY DEF TypeOK, JobState
    <2>2. QED
      BY <1>1, <2>1 DEF Post, LabelGain
  <1>2. CASE Upload(j)
    BY <1>2 DEF Upload, FirstLabel
  <1>3. CASE Delete(j)
    BY <1>3 DEF Delete, LabelLoss
  <1>4. QED
    BY <1>1, <1>2, <1>3 DEF Act, Tag, List, Retire, Before, After, BreakOff

(* No step takes a label other than staging away.                             *)
LEMMA OthersKept ==
  ASSUME TypeOK, NEW j \in Job, Act(j), NEW v \in Version, NEW b \in Basename,
         NEW l \in labels[v][b], l # "staging"
  PROVE  l \in labels'[v][b]
  <1>1. jobs[j].moving \in Version /\ jobs[j].file \in Basename /\ VersionOf(j) \in Version
    BY DEF TypeOK, JobState, Job, VersionOf
  <1>2. labels \in [Version -> [Basename -> SUBSET Label]]
    BY DEF TypeOK, Channel
  <1>3. CASE FirstLabel(j)
    BY <1>1, <1>2, <1>3 DEF FirstLabel
  <1>4. CASE LabelLoss(j)
    BY <1>1, <1>2, <1>4 DEF LabelLoss
  <1>5. CASE LabelGain(j)
    BY <1>1, <1>2, <1>5 DEF LabelGain
  <1>6. QED
    BY <1>3, <1>4, <1>5, LabelChange

(* Only a promote job ever adds main.                                         *)
LEMMA MainFromPromote ==
  ASSUME ChannelInv, NEW j \in Job, Act(j), NEW v \in Version,
         "main" \in On(labels', v), "main" \notin On(labels, v)
  PROVE  j = <<"promote", v>> /\ jobs[j].pc = "post"
  <1>1. PICK b \in Basename : "main" \in labels'[v][b] /\ "main" \notin labels[v][b]
    BY DEF On
  <1>2. jobs[j].moving \in Version /\ jobs[j].file \in Basename /\ VersionOf(j) \in Version
    BY DEF ChannelInv, TypeOK, JobState, Job, VersionOf
  <1>3. labels \in [Version -> [Basename -> SUBSET Label]]
    BY DEF ChannelInv, TypeOK, Channel
  <1>4. ~FirstLabel(j)
    BY <1>1, <1>2, <1>3 DEF FirstLabel
  <1>5. ~LabelLoss(j)
    BY <1>1, <1>2, <1>3 DEF LabelLoss
  <1>6. LabelGain(j) /\ jobs[j].pc = "post"
    BY <1>1, <1>4, <1>5, LabelChange DEF ChannelInv
  <1>7. To(j) = "main" /\ jobs[j].moving = v
    BY <1>1, <1>2, <1>3, <1>6 DEF LabelGain
  <1>8. KindOf(j) = "promote" /\ VersionOf(j) = v
    BY <1>7 DEF To, ChannelInv, JobsOK
  <1>9. QED
    BY <1>6, <1>8 DEF KindOf, VersionOf, Job

LEMMA ActType ==
  ASSUME TypeOK, NEW j \in Job, Act(j)
  PROVE  TypeOK' /\ \A k \in Job \ {j} : jobs'[k] = jobs[k]
  BY ChannelTypeStep DEF Act

(* What a step does to the job it belongs to.                                 *)
LEMMA OwnJob ==
  ASSUME ChannelInv, NEW j \in Job, Act(j)
  PROVE  /\ KindOf(j) = "promote" => /\ jobs'[j].moving = VersionOf(j)
                                     /\ jobs'[j].pc \notin {"upload", "list", "next"}
         /\ jobs'[j].pc = "delete" => To(j) \in labels'[jobs'[j].moving][jobs'[j].file]
         /\ jobs'[j].pc # "idle"
  <1>0. /\ jobs \in [Job -> JobState] /\ jobs[j] \in JobState
        /\ labels \in [Version -> [Basename -> SUBSET Label]]
        /\ KindOf(j) = "promote" => /\ jobs[j].moving = VersionOf(j)
                                    /\ jobs[j].pc \notin {"upload", "list", "next"}
    BY DEF ChannelInv, TypeOK, JobsOK, Channel
  <1>a. ASSUME NEW pc \in Pc, Goto(j, pc)
        PROVE  jobs'[j].pc = pc /\ jobs'[j].moving = jobs[j].moving
    BY <1>0, <1>a DEF Goto, JobState
  <1>b. ASSUME NEW pc \in Pc, End(j, pc)
        PROVE  jobs'[j].pc = pc /\ jobs'[j].moving = VersionOf(j)
    BY <1>0, <1>b, NewJobType DEF End
  <1>1. CASE Tag(j)
    BY <1>0, <1>1, <1>a DEF Tag, Pc, Over
  <1>2. CASE Upload(j)
    BY <1>0, <1>2, <1>a DEF Upload, Pc, Over
  <1>3. CASE List(j)
    <2>1. jobs'[j].pc = "next" /\ jobs[j].pc = "list"
      BY <1>0, <1>3 DEF List, JobState
    <2>2. QED
      BY <1>0, <2>1
  <1>4. CASE Retire(j)
    <2>1. KindOf(j) # "promote"
      BY <1>0, <1>4 DEF Retire
    <2>2. CASE End(j, "ok") \/ End(j, "refused")
      BY <2>1, <2>2, <1>b DEF Pc, Over
    <2>3. CASE \E v \in jobs[j].todo :
                 jobs' = [jobs EXCEPT ![j].pc = "before", ![j].moving = v,
                                      ![j].todo = @ \ {v},
                                      ![j].seen[v] = Nothing[v]]
      BY <1>0, <2>1, <2>3 DEF JobState
    <2>4. QED
      BY <1>4, <2>2, <2>3 DEF Retire
  <1>5. CASE Before(j)
    <2>1. CASE End(j, "error")
      BY <2>1, <1>b DEF Pc, Over
    <2>2. CASE ~End(j, "error")
      <3>1. PICK targets :
              jobs' = [jobs EXCEPT ![j].pc = "post", ![j].before = labels,
                                   ![j].targets = targets, ![j].left = targets]
        BY <1>5, <2>2 DEF Before
      <3>2. jobs'[j].pc = "post" /\ jobs'[j].moving = jobs[j].moving
        BY <1>0, <3>1 DEF JobState
      <3>3. QED
        BY <1>0, <3>2
    <2>3. QED
      BY <2>1, <2>2
  <1>6. CASE Post(j)
    <2>1. PICK b \in jobs[j].left :
            /\ labels' = [labels EXCEPT ![jobs[j].moving][b] = @ \cup {To(j)}]
            /\ jobs' = [jobs EXCEPT ![j].pc = "delete", ![j].file = b]
      BY <1>6 DEF Post
    <2>2. b \in Basename /\ jobs[j].moving \in Version
      BY <1>0 DEF JobState
    <2>3. jobs'[j].pc = "delete" /\ jobs'[j].file = b /\ jobs'[j].moving = jobs[j].moving
      BY <1>0, <2>1 DEF JobState
    <2>4. To(j) \in labels'[jobs[j].moving][b]
      BY <1>0, <2>1, <2>2
    <2>5. QED
      BY <1>0, <2>3, <2>4
  <1>7. CASE Delete(j)
    <2>1. CASE End(j, "error")
      BY <2>1, <1>b DEF Pc, Over
    <2>2. CASE ~End(j, "error")
      <3>1. jobs'[j].pc \in {"after", "post"} /\ jobs'[j].moving = jobs[j].moving
        BY <1>0, <1>7, <2>2 DEF Delete, JobState
      <3>2. QED
        BY <1>0, <3>1
    <2>3. QED
      BY <2>1, <2>2
  <1>8. CASE After(j)
    <2>1. CASE End(j, "ok") \/ End(j, "error")
      BY <2>1, <1>b DEF Pc, Over
    <2>2. CASE KindOf(j) # "promote" /\ Goto(j, "next")
      BY <2>2, <1>a DEF Pc
    <2>3. QED
      BY <1>8, <2>1, <2>2 DEF After
  <1>9. CASE BreakOff(j)
    BY <1>9, <1>b DEF BreakOff, Pc, Over
  <1>10. QED
    BY <1>1, <1>2, <1>3, <1>4, <1>5, <1>6, <1>7, <1>8, <1>9 DEF Act

LEMMA ChannelStep == ChannelInv /\ [Next]_vars => ChannelInv'
  <1> SUFFICES ASSUME ChannelInv, [Next]_vars PROVE ChannelInv'
    OBVIOUS
  <1>1. CASE UNCHANGED vars
    BY <1>1 DEF vars, ChannelInv, TypeOK, JobsOK, OnlyReleasedOnMain, On
  <1>2. ASSUME NEW j \in Job, Act(j) PROVE ChannelInv'
    <2>1. TypeOK' /\ \A k \in Job \ {j} : jobs'[k] = jobs[k]
      BY <1>2, ActType DEF ChannelInv
    <2>2. JobsOK'
      <3>1. ASSUME NEW k \in Job \ {j}, jobs'[k].pc = "delete"
            PROVE  To(k) \in labels'[jobs'[k].moving][jobs'[k].file]
        <4>1. /\ jobs'[k] = jobs[k] /\ To(k) # "staging"
              /\ To(k) \in labels[jobs[k].moving][jobs[k].file]
          BY <2>1, <3>1 DEF To, ChannelInv, JobsOK
        <4>2. jobs[k].moving \in Version /\ jobs[k].file \in Basename
          BY DEF ChannelInv, TypeOK, JobState
        <4>3. QED
          BY <1>2, <4>1, <4>2, OthersKept DEF ChannelInv
      <3>2. QED
        BY <1>2, <2>1, <3>1, OwnJob DEF JobsOK, ChannelInv, To
    <2>3. OnlyReleasedOnMain'
      <3> SUFFICES ASSUME NEW v \in Version, "main" \in On(labels', v)
                   PROVE  jobs'[<<"promote", v>>].pc # "idle"
        BY DEF OnlyReleasedOnMain
      <3>1. <<"promote", v>> \in Job
        BY DEF Job
      <3>2. CASE "main" \in On(labels, v)
        BY <1>2, <2>1, <3>1, <3>2, OwnJob DEF ChannelInv, OnlyReleasedOnMain
      <3>3. CASE "main" \notin On(labels, v)
        BY <1>2, <3>3, MainFromPromote, OwnJob
      <3>4. QED
        BY <3>2, <3>3
    <2>4. QED
      BY <2>1, <2>2, <2>3 DEF ChannelInv
  <1>3. QED
    BY <1>1, <1>2 DEF Next, Act

LEMMA ChannelInvariant == Spec => []ChannelInv
  <1>1. Init => ChannelInv
    BY ChannelInit
  <1>2. ChannelInv /\ [Next]_vars => ChannelInv'
    BY ChannelStep
  <1>3. QED
    BY <1>1, <1>2, PTL DEF Spec

(* The jobs' bookkeeping and the labels stay well formed.                     *)
THEOREM ChannelTypeOK == Spec => []TypeOK
  <1>1. ChannelInv => TypeOK
    BY DEF ChannelInv
  <1>2. QED
    BY <1>1, ChannelInvariant, PTL

(* A version on main was asked for by a release tag, however many jobs race   *)
(* and wherever they break off (relabel and promote of channel_tools.py).     *)
THEOREM ChannelOnlyReleased == Spec => []OnlyReleasedOnMain
  <1>1. ChannelInv => OnlyReleasedOnMain
    BY DEF ChannelInv
  <1>2. QED
    BY <1>1, ChannelInvariant, PTL

(* A published file always has a label, and main is never taken from a file:  *)
(* relabel adds the new label before it deletes the old one.                  *)
THEOREM ChannelNeverLost == Spec => NeverLost
  <1> DEFINE Kept == \A v \in Version, b \in Basename :
                        /\ labels[v][b] # {} => labels'[v][b] # {}
                        /\ "main" \in labels[v][b] => "main" \in labels'[v][b]
  <1>1. ChannelInv /\ [Next]_vars => [Kept]_vars
    <2> SUFFICES ASSUME ChannelInv, NEW j \in Job, Act(j) PROVE Kept
      BY DEF Next, Act
    <2> SUFFICES ASSUME NEW v \in Version, NEW b \in Basename
                 PROVE  /\ labels[v][b] # {} => labels'[v][b] # {}
                        /\ "main" \in labels[v][b] => "main" \in labels'[v][b]
      OBVIOUS
    <2>1. ASSUME NEW l \in labels[v][b], l # "staging" PROVE l \in labels'[v][b]
      BY <2>1, OthersKept DEF ChannelInv
    <2>2. ASSUME "staging" \in labels[v][b] PROVE labels'[v][b] # {}
      <3>1. /\ jobs[j].moving \in Version /\ jobs[j].file \in Basename
            /\ VersionOf(j) \in Version
            /\ labels \in [Version -> [Basename -> SUBSET Label]]
        BY DEF ChannelInv, TypeOK, JobState, Job, VersionOf, Channel
      <3>2. CASE FirstLabel(j)
        BY <2>2, <3>1, <3>2 DEF FirstLabel
      <3>3. CASE LabelGain(j)
        BY <2>2, <3>1, <3>3 DEF LabelGain
      <3>4. CASE LabelLoss(j)
        <4>1. CASE v = jobs[j].moving /\ b = jobs[j].file
          <5>1. To(j) \in labels[v][b] /\ To(j) # "staging"
            BY <3>4, <4>1 DEF LabelLoss, ChannelInv, JobsOK, To
          <5>2. QED
            BY <2>1, <5>1
        <4>2. CASE ~(v = jobs[j].moving /\ b = jobs[j].file)
          BY <2>2, <3>1, <3>4, <4>2 DEF LabelLoss
        <4>3. QED
          BY <4>1, <4>2
      <3>5. QED
        BY <2>2, <3>2, <3>3, <3>4, LabelChange DEF ChannelInv
    <2>3. QED
      BY <2>1, <2>2
  <1>2. QED
    BY <1>1, ChannelInvariant, PTL DEF Spec, NeverLost

-----------------------------------------------------------------------------
(* Jobs that do not overlap.  What the publish job of version v relies on     *)
(* while it retires: the listing of the versions it has still to look at is   *)
(* up to date, the files it moves are archived, and every version it is done  *)
(* with is off staging.                                                       *)
Unstaged(w) == \A b \in Basename : "staging" \notin labels[w][b]
Kept(w, b) == <<w, b>> \in archived
AtWork == {"next", "before", "post", "delete", "after"}
Relabelling == AtWork \ {"next"}

Retiring(job, v) ==
    /\ job.pc \in AtWork =>
         /\ v \notin job.todo
         /\ \A w \in job.todo : job.seen[w] = labels[w]
    /\ job.pc = "next" => \A w \in Version \ {v} : w \notin job.todo => Unstaged(w)
    /\ job.pc \in Relabelling =>
         /\ job.moving \notin job.todo
         /\ \A w \in Version \ {v, job.moving} : w \notin job.todo => Unstaged(w)
    /\ job.pc = "before" =>
         \A b \in Basename : labels[job.moving][b] # {} => Kept(job.moving, b)
    /\ job.pc \in {"post", "delete"} =>
         /\ \A b \in job.left : Kept(job.moving, b)
         /\ \A b \in Basename : "staging" \in labels[job.moving][b] => b \in job.left
    /\ job.pc = "after" => Unstaged(job.moving)

SoloInv ==
    ~overlapped =>
        /\ \A j, k \in Job : jobs[j].pc \notin Over /\ jobs[k].pc \notin Over => j = k
        /\ \A j \in Job : KindOf(j) = "publish" => Retiring(jobs[j], VersionOf(j))
        /\ ArchivedBeforeAttic

(* Over a job there is nothing to rely on.                                    *)
LEMMA OverRetires ==
  ASSUME NEW job, NEW v, job.pc \in Over \cup {"upload", "list"}
  PROVE  Retiring(job, v)
  BY DEF Retiring, Over, AtWork, Relabelling

LEMMA SoloInit == Init => SoloInv
  <1> SUFFICES ASSUME Init PROVE SoloInv
    OBVIOUS
  <1>1. \A j \in Job : jobs[j].pc = "idle"
    BY NewJobType DEF Init, Pc, Over
  <1>2. \A j \in Job : Retiring(jobs[j], VersionOf(j))
    BY <1>1, OverRetires DEF Over
  <1>3. ArchivedBeforeAttic
    BY DEF Init, Nothing, ArchivedBeforeAttic
  <1>4. QED
    BY <1>1, <1>2, <1>3 DEF SoloInv, Over

LEMMA ListFrame ==
  ASSUME NEW j \in Job, List(j)
  PROVE  /\ jobs[j].pc = "list"
         /\ labels' = labels /\ archived' = archived /\ overlapped' = overlapped
  <1>1. jobs[j].pc = "list" /\ UNCHANGED <<labels, archived, failures, overlapped>>
    BY Zenon DEF List
  <1>2. QED
    BY <1>1

LEMMA BeforeFrame ==
  ASSUME NEW j \in Job, Before(j)
  PROVE  /\ jobs[j].pc = "before"
         /\ labels' = labels /\ archived' = archived /\ overlapped' = overlapped
  <1>1. jobs[j].pc = "before" /\ UNCHANGED <<labels, archived, failures, overlapped>>
    BY Zenon DEF Before
  <1>2. QED
    BY <1>1

(* A step of Retire takes the next version, or ends the job.                  *)
Take(j, w) ==
    /\ archived' = archived \cup Archive(j, w)
    /\ jobs' = [jobs EXCEPT ![j].pc = "before", ![j].moving = w,
                            ![j].todo = @ \ {w}, ![j].seen[w] = Nothing[w]]

LEMMA RetireFrame ==
  ASSUME NEW j \in Job, Retire(j)
  PROVE  /\ jobs[j].pc = "next" /\ labels' = labels /\ overlapped' = overlapped
         /\ archived \subseteq archived'
         /\ \/ jobs[j].todo = {} /\ End(j, "ok") /\ archived' = archived
            \/ End(j, "refused") /\ archived' = archived
            \/ \E w \in jobs[j].todo : Take(j, w)
  <1>1. jobs[j].pc = "next" /\ UNCHANGED <<labels, failures, overlapped>>
    BY Zenon DEF Retire
  <1>2. \/ jobs[j].todo = {} /\ End(j, "ok") /\ UNCHANGED archived
        \/ End(j, "refused") /\ UNCHANGED archived
        \/ \E w \in jobs[j].todo : Take(j, w)
    BY Zenon DEF Retire, Take
  <1>3. \A w : Take(j, w) => archived' = archived \cup Archive(j, w)
    BY Zenon DEF Take
  <1>4. QED
    BY <1>1, <1>2, <1>3

LEMMA ActFrame ==
  ASSUME NEW j \in Job, Act(j), ~Tag(j)
  PROVE  /\ overlapped' = overlapped /\ archived \subseteq archived'
         /\ jobs[j].pc \notin Over
  <1>1. CASE Upload(j)
    BY <1>1 DEF Upload, AtWork, Over
  <1>2. CASE List(j)
    BY <1>2, ListFrame DEF Over
  <1>3. CASE Retire(j)
    BY <1>3, RetireFrame DEF Over
  <1>4. CASE Before(j)
    BY <1>4, BeforeFrame DEF Over
  <1>5. CASE Post(j)
    BY <1>5 DEF Post, AtWork, Over
  <1>6. CASE Delete(j)
    BY <1>6 DEF Delete, AtWork, Over
  <1>7. CASE After(j)
    BY <1>7 DEF After, AtWork, Over
  <1>8. CASE BreakOff(j)
    BY <1>8 DEF BreakOff
  <1>9. QED
    BY <1>1, <1>2, <1>3, <1>4, <1>5, <1>6, <1>7, <1>8 DEF Act

(* Alone, a job's next step finds every other job over, before and after.     *)
LEMMA AloneStep ==
  ASSUME ChannelInv, SoloInv, NEW j \in Job, Act(j), ~overlapped'
  PROVE  /\ ~overlapped
         /\ \A k \in Job \ {j} : jobs'[k] = jobs[k] /\ jobs[k].pc \in Over
  <1>1. ~overlapped
    <2>1. CASE Tag(j)
      BY <2>1 DEF Tag
    <2>2. CASE ~Tag(j)
      BY <2>2, ActFrame
    <2>3. QED
      BY <2>1, <2>2
  <1>2. \A k \in Job \ {j} : jobs'[k] = jobs[k]
    BY ActType DEF ChannelInv
  <1>3. CASE Tag(j)
    <2>1. overlapped' = (overlapped \/ Running # {})
      BY <1>3 DEF Tag
    <2>2. Running = {}
      BY <2>1
    <2>3. \A k \in Job : jobs[k].pc \in Over
      BY <2>2 DEF Running
    <2>4. QED
      BY <1>1, <1>2, <2>3
  <1>4. CASE ~Tag(j)
    <2>1. jobs[j].pc \notin Over
      BY <1>4, ActFrame
    <2>2. QED
      BY <1>1, <1>2, <2>1 DEF SoloInv
  <1>5. QED
    BY <1>3, <1>4

(* The attic grows only by what a publish job archived.                       *)
LEMMA AtticArchived ==
  ASSUME ChannelInv, SoloInv, ~overlapped, NEW j \in Job, Act(j)
  PROVE  \A v \in Version, b \in Basename :
           "attic" \in labels'[v][b] => <<v, b>> \in archived'
  <1>0. /\ jobs[j].moving \in Version /\ jobs[j].file \in Basename
        /\ jobs[j].left \subseteq Basename /\ VersionOf(j) \in Version
        /\ labels \in [Version -> [Basename -> SUBSET Label]]
        /\ archived \subseteq archived'
    <2>1. archived \subseteq archived'
      <3>1. CASE Tag(j)
        BY <3>1 DEF Tag
      <3>2. CASE ~Tag(j)
        BY <3>2, ActFrame
      <3>3. QED
        BY <3>1, <3>2
    <2>2. QED
      BY <2>1 DEF ChannelInv, TypeOK, JobState, Job, VersionOf, Channel
  <1> SUFFICES ASSUME NEW v \in Version, NEW b \in Basename, "attic" \in labels'[v][b],
                      "attic" \notin labels[v][b]
               PROVE  <<v, b>> \in archived'
    BY <1>0 DEF SoloInv, ArchivedBeforeAttic
  <1>1. ~FirstLabel(j)
    BY <1>0 DEF FirstLabel
  <1>2. ~LabelLoss(j)
    BY <1>0 DEF LabelLoss
  <1>3. Post(j)
    <2>1. jobs[j].pc = "post"
      BY <1>1, <1>2, LabelChange DEF ChannelInv
    <2>2. labels' # labels
      OBVIOUS
    <2>3. QED
      BY <2>1, <2>2 DEF Act, Tag, Upload, List, Retire, Before, Delete, After, BreakOff
  <1>4. PICK c \in jobs[j].left :
          labels' = [labels EXCEPT ![jobs[j].moving][c] = @ \cup {To(j)}]
    BY <1>3 DEF Post
  <1>5. v = jobs[j].moving /\ b = c /\ To(j) = "attic"
    BY <1>0, <1>4
  <1>6. KindOf(j) = "publish"
    BY <1>5 DEF To, KindOf, Job
  <1>7. Kept(jobs[j].moving, c)
    BY <1>3, <1>6 DEF SoloInv, Retiring, Post
  <1>8. QED
    BY <1>0, <1>5, <1>7 DEF Kept

(* What a publish job relies on holds after each of its own steps.            *)
LEMMA RetiringStep ==
  ASSUME ChannelInv, NEW j \in Job, Act(j), KindOf(j) = "publish",
         Retiring(jobs[j], VersionOf(j))
  PROVE  Retiring(jobs[j], VersionOf(j))'
  <1> DEFINE v == VersionOf(j)
  <1>0. /\ v \in Version /\ jobs \in [Job -> JobState] /\ jobs[j] \in JobState
        /\ labels \in [Version -> [Basename -> SUBSET Label]]
        /\ jobs[j].moving \in Version /\ jobs[j].file \in Basename
        /\ jobs[j].left \subseteq Basename /\ jobs[j].todo \subseteq Version
        /\ jobs[j].seen \in [Version -> [Basename -> SUBSET Label]]
        /\ To(j) = "attic"
    BY DEF ChannelInv, TypeOK, JobState, Job, VersionOf, Channel, To
  <1>a. ASSUME NEW pc \in Over, End(j, pc)
        PROVE  Retiring(jobs[j], v)'
    <2>1. jobs'[j].pc = pc
      BY <1>0, <1>a, NewJobType DEF End, Pc
    <2>2. QED
      BY <2>1 DEF Retiring, Over, AtWork, Relabelling
  <1>1. CASE Tag(j) \/ Upload(j)
    <2>1. jobs'[j].pc \in {"upload", "list"}
      BY <1>0, <1>1 DEF Tag, Upload, Goto, JobState
    <2>2. QED
      BY <2>1 DEF Retiring, Over, AtWork, Relabelling
  <1>2. CASE List(j)
    <2> DEFINE others == {w \in Version \ {v} : "staging" \in On(labels, w)}
               seen == [w \in Version |-> IF w \in others THEN labels[w] ELSE Nothing[w]]
    <2>1. jobs' = [jobs EXCEPT ![j].pc = "next", ![j].todo = others, ![j].seen = seen]
      BY <1>2, Zenon DEF List
    <2>2. /\ v \notin others /\ \A w \in others : seen[w] = labels[w]
          /\ \A w \in Version \ {v} : w \notin others => Unstaged(w)
      BY DEF On, Unstaged
    <2> HIDE DEF others, seen
    <2>3. /\ jobs' = [jobs EXCEPT ![j].pc = "next", ![j].todo = others, ![j].seen = seen]
          /\ labels' = labels
      BY <1>2, <2>1, ListFrame
    <2>4. jobs'[j].pc = "next" /\ jobs'[j].todo = others /\ jobs'[j].seen = seen
      BY <1>0, <2>3 DEF JobState
    <2>5. \A w \in Version : Unstaged(w)' = Unstaged(w)
      BY <2>3 DEF Unstaged
    <2>6. QED
      BY <2>3, <2>2, <2>4, <2>5 DEF Retiring, AtWork, Relabelling
  <1>3. CASE Retire(j)
    <2>1. CASE End(j, "ok") \/ End(j, "refused")
      BY <1>a, <2>1 DEF Over
    <2>2. ASSUME NEW w \in jobs[j].todo, Take(j, w)
          PROVE  Retiring(jobs[j], v)'
      <3>1. /\ jobs'[j].pc = "before" /\ jobs'[j].moving = w
            /\ jobs'[j].todo = jobs[j].todo \ {w}
            /\ jobs'[j].seen = [jobs[j].seen EXCEPT ![w] = Nothing[w]]
        BY <1>0, <2>2 DEF Take, JobState
      <3>2. jobs[j].pc = "next" /\ labels' = labels
        BY <1>3, RetireFrame
      <3>3. /\ v \notin jobs[j].todo
            /\ \A u \in jobs[j].todo : jobs[j].seen[u] = labels[u]
            /\ \A u \in Version \ {v} : u \notin jobs[j].todo => Unstaged(u)
        BY <3>2 DEF Retiring, AtWork
      <3>4. \A u \in jobs'[j].todo : jobs'[j].seen[u] = labels'[u]
        BY <1>0, <3>1, <3>2, <3>3
      <3>5. \A b \in Basename : labels'[w][b] # {} => Kept(w, b)'
        BY <1>0, <2>2, <3>2, <3>3 DEF Take, Archive, Kept
      <3>6. \A u \in Version : Unstaged(u)' = Unstaged(u)
        BY <3>2 DEF Unstaged
      <3>7. \A u \in Version \ {v, w} : u \notin jobs'[j].todo => Unstaged(u)'
        BY <3>1, <3>3, <3>6
      <3>8. QED
        BY <3>1, <3>3, <3>4, <3>5, <3>7 DEF Retiring, AtWork, Relabelling
    <2>3. QED
      BY <1>3, <2>1, <2>2, RetireFrame
  <1>4. CASE Before(j)
    <2>1. CASE End(j, "error")
      BY <1>a, <2>1 DEF Over
    <2>2. CASE ~End(j, "error")
      <3> DEFINE targets == {b \in Basename : "staging" \in labels[jobs[j].moving][b]}
      <3>1. jobs' = [jobs EXCEPT ![j].pc = "post", ![j].before = labels,
                                 ![j].targets = targets, ![j].left = targets]
        BY <1>4, <2>2, Zenon DEF Before
      <3>2. \A b \in targets : Kept(jobs[j].moving, b)
        <4>1. \A b \in Basename : labels[jobs[j].moving][b] # {} => Kept(jobs[j].moving, b)
          BY <1>4, BeforeFrame DEF Retiring
        <4>2. QED
          BY <4>1
      <3>3. \A b \in Basename : "staging" \in labels[jobs[j].moving][b] => b \in targets
        OBVIOUS
      <3> HIDE DEF targets
      <3>4. /\ jobs' = [jobs EXCEPT ![j].pc = "post", ![j].before = labels,
                                    ![j].targets = targets, ![j].left = targets]
            /\ jobs[j].pc = "before" /\ labels' = labels /\ archived' = archived
        BY <1>4, <3>1, BeforeFrame
      <3>5. /\ jobs'[j].pc = "post" /\ jobs'[j].left = targets
            /\ jobs'[j].moving = jobs[j].moving /\ jobs'[j].todo = jobs[j].todo
            /\ jobs'[j].seen = jobs[j].seen
        BY <1>0, <3>4 DEF JobState
      <3>6. QED
        BY <1>0, <3>4, <3>2, <3>3, <3>5 DEF Retiring, AtWork, Relabelling, Unstaged, Kept
    <2>3. QED
      BY <2>1, <2>2
  <1>5. CASE Post(j)
    <2>1. PICK b \in jobs[j].left :
            /\ labels' = [labels EXCEPT ![jobs[j].moving][b] = @ \cup {To(j)}]
            /\ jobs' = [jobs EXCEPT ![j].pc = "delete", ![j].file = b]
            /\ archived' = archived /\ jobs[j].pc = "post"
      BY <1>5 DEF Post
    <2>2. /\ jobs'[j].pc = "delete" /\ jobs'[j].left = jobs[j].left
          /\ jobs'[j].moving = jobs[j].moving /\ jobs'[j].todo = jobs[j].todo
          /\ jobs'[j].seen = jobs[j].seen
      BY <1>0, <2>1 DEF JobState
    <2>3. \A w \in Version : w # jobs[j].moving => labels'[w] = labels[w]
      BY <1>0, <2>1
    <2>4. \A c \in Basename : "staging" \in labels'[jobs[j].moving][c]
                                => "staging" \in labels[jobs[j].moving][c]
      BY <1>0, <2>1
    <2>5. QED
      BY <1>0, <2>1, <2>2, <2>3, <2>4
         DEF Retiring, AtWork, Relabelling, Unstaged, Kept
  <1>6. CASE Delete(j)
    <2>1. CASE End(j, "error")
      BY <1>a, <2>1 DEF Over
    <2>2. CASE ~End(j, "error")
      <3> DEFINE left == jobs[j].left \ {jobs[j].file}
      <3>1. /\ labels' = [labels EXCEPT ![jobs[j].moving][jobs[j].file] = @ \ {"staging"}]
            /\ jobs' = [jobs EXCEPT ![j].left = left,
                                    ![j].pc = IF left = {} THEN "after" ELSE "post"]
            /\ archived' = archived /\ jobs[j].pc = "delete"
        BY <1>6, <2>2 DEF Delete
      <3>2. /\ jobs'[j].pc = IF left = {} THEN "after" ELSE "post"
            /\ jobs'[j].left = left
            /\ jobs'[j].moving = jobs[j].moving /\ jobs'[j].todo = jobs[j].todo
            /\ jobs'[j].seen = jobs[j].seen
        BY <1>0, <3>1 DEF JobState
      <3>3. \A w \in Version : w # jobs[j].moving => labels'[w] = labels[w]
        BY <1>0, <3>1
      <3>4. \A c \in Basename : "staging" \in labels'[jobs[j].moving][c] => c \in left
        BY <1>0, <3>1 DEF Retiring
      <3>5. \A c \in left : Kept(jobs[j].moving, c)
        BY <3>1 DEF Retiring
      <3>6. /\ v \notin jobs[j].todo /\ jobs[j].moving \notin jobs[j].todo
            /\ \A w \in jobs[j].todo : jobs[j].seen[w] = labels[w]
            /\ \A w \in Version \ {v, jobs[j].moving} :
                 w \notin jobs[j].todo => Unstaged(w)
        BY <3>1 DEF Retiring, AtWork, Relabelling
      <3>7. /\ \A w \in jobs'[j].todo : jobs'[j].seen[w] = labels'[w]
            /\ \A w \in Version \ {v, jobs[j].moving} :
                 w \notin jobs[j].todo => Unstaged(w)'
        BY <1>0, <3>2, <3>3, <3>6 DEF Unstaged
      <3> HIDE DEF left
      <3>8. CASE left = {}
        <4>1. Unstaged(jobs[j].moving)'
          BY <3>4, <3>8, <3>2 DEF Unstaged
        <4>2. QED
          BY <3>2, <3>6, <3>7, <3>8, <4>1 DEF Retiring, AtWork, Relabelling, Unstaged
      <3>9. CASE left # {}
        <4>1. jobs'[j].pc = "post"
          BY <3>2, <3>9
        <4>2. \A c \in left : Kept(jobs[j].moving, c)'
          BY <3>1, <3>2, <3>5 DEF Kept
        <4>3. QED
          BY <3>2, <3>4, <3>6, <3>7, <4>1, <4>2 DEF Retiring, AtWork, Relabelling
      <3>10. QED
        BY <3>8, <3>9
    <2>3. QED
      BY <2>1, <2>2
  <1>7. CASE After(j)
    <2>1. CASE End(j, "error")
      BY <1>a, <2>1 DEF Over
    <2>2. CASE Goto(j, "next")
      <3>1. /\ jobs'[j].pc = "next" /\ jobs'[j].todo = jobs[j].todo
            /\ jobs'[j].seen = jobs[j].seen /\ labels' = labels /\ jobs[j].pc = "after"
        BY <1>0, <1>7, <2>2 DEF After, Goto, JobState
      <3>2. \A w \in Version : Unstaged(w)' = Unstaged(w)
        BY <3>1 DEF Unstaged
      <3>3. QED
        BY <1>0, <3>1, <3>2 DEF Retiring, AtWork, Relabelling
    <2>3. QED
      BY <1>7, <2>1, <2>2 DEF After
  <1>8. CASE BreakOff(j)
    BY <1>8, <1>a DEF BreakOff, Over
  <1>9. QED
    BY <1>1, <1>2, <1>3, <1>4, <1>5, <1>6, <1>7, <1>8 DEF Act

LEMMA SoloStep == ChannelInv /\ SoloInv /\ [Next]_vars => SoloInv'
  <1> SUFFICES ASSUME ChannelInv, SoloInv, [Next]_vars, ~overlapped'
               PROVE  /\ \A j, k \in Job :
                           jobs'[j].pc \notin Over /\ jobs'[k].pc \notin Over => j = k
                      /\ \A j \in Job : KindOf(j) = "publish"
                                          => Retiring(jobs[j], VersionOf(j))'
                      /\ ArchivedBeforeAttic'
    BY DEF SoloInv
  <1>1. CASE UNCHANGED vars
    BY <1>1 DEF vars, SoloInv, Retiring, Unstaged, Kept, ArchivedBeforeAttic
  <1>2. ASSUME NEW j \in Job, Act(j)
        PROVE  /\ \A i, k \in Job :
                    jobs'[i].pc \notin Over /\ jobs'[k].pc \notin Over => i = k
               /\ \A k \in Job : KindOf(k) = "publish"
                                   => Retiring(jobs[k], VersionOf(k))'
               /\ ArchivedBeforeAttic'
    <2>1. /\ ~overlapped
          /\ \A k \in Job \ {j} : jobs'[k] = jobs[k] /\ jobs[k].pc \in Over
      BY <1>2, AloneStep
    <2>2. ASSUME NEW k \in Job \ {j} PROVE Retiring(jobs[k], VersionOf(k))'
      <3>1. jobs'[k].pc \in Over
        BY <2>1
      <3>2. QED
        BY <3>1 DEF Retiring, Over, AtWork, Relabelling
    <2>3. KindOf(j) = "publish" => Retiring(jobs[j], VersionOf(j))'
      BY <1>2, <2>1, RetiringStep DEF SoloInv
    <2>4. ArchivedBeforeAttic'
      BY <1>2, <2>1, AtticArchived DEF ArchivedBeforeAttic
    <2>5. QED
      BY <2>1, <2>2, <2>3, <2>4
  <1>3. QED
    BY <1>1, <1>2 DEF Next, Act

LEMMA SpecSolo == Spec => [](ChannelInv /\ SoloInv)
  <1>1. Init => ChannelInv /\ SoloInv
    BY ChannelInit, SoloInit
  <1>2. (ChannelInv /\ SoloInv) /\ [Next]_vars => (ChannelInv /\ SoloInv)'
    BY ChannelStep, SoloStep
  <1>3. QED
    BY <1>1, <1>2, PTL DEF Spec

(* As long as jobs do not overlap, wherever they break off, what is filed in  *)
(* the attic was downloaded and checked by the retire step that filed it.     *)
THEOREM ChannelArchived == Spec => []ArchivedBeforeAttic
  <1>1. SoloInv => ArchivedBeforeAttic
    BY DEF SoloInv, ArchivedBeforeAttic
  <1>2. QED
    BY <1>1, SpecSolo, PTL

(* And a publish job that succeeds leaves its own version alone on staging,   *)
(* also when jobs before it broke off half-way.                               *)
THEOREM ChannelOneCandidate == Spec => OneCandidate
  <1>1. ChannelInv /\ SoloInv /\ [Next]_vars =>
          [\A v \in Version :
             jobs'[<<"publish", v>>].pc = "ok" /\ jobs[<<"publish", v>>].pc # "ok"
               /\ ~overlapped =>
                \A w \in Version \ {v} : "staging" \notin On(labels', w)]_vars
    <2> SUFFICES ASSUME ChannelInv, SoloInv, Next, NEW v \in Version,
                        jobs'[<<"publish", v>>].pc = "ok",
                        jobs[<<"publish", v>>].pc # "ok", ~overlapped,
                        NEW w \in Version \ {v}
                 PROVE  "staging" \notin On(labels', w)
      OBVIOUS
    <2> DEFINE j == <<"publish", v>>
    <2>1. j \in Job /\ KindOf(j) = "publish" /\ VersionOf(j) = v
      BY DEF Job, KindOf, VersionOf
    <2>2. PICK k \in Job : Act(k)
      BY DEF Next, Act
    <2>3. k = j
      BY <2>1, <2>2, ActType DEF ChannelInv
    <2>4. jobs[j] \in JobState /\ jobs \in [Job -> JobState]
      BY <2>1 DEF ChannelInv, TypeOK
    <2>5. jobs[j].pc = "next" /\ jobs[j].todo = {} /\ labels' = labels
      <3>1. \A pc \in Pc : End(j, pc) => jobs'[j].pc = pc
        BY <2>1, <2>4, NewJobType DEF End
      <3>2. \A pc \in Pc : Goto(j, pc) => jobs'[j].pc = pc
        BY <2>1, <2>4 DEF Goto, JobState
      <3>3. ~Tag(j) /\ ~Upload(j)
        BY <2>1, <2>4, <3>2 DEF Tag, Upload, Pc
      <3>4. ~List(j)
        BY <2>1, <2>4 DEF List, JobState
      <3>5. ~Before(j) /\ ~Post(j) /\ ~Delete(j)
        <4>1. ~Before(j)
          <5>1. ASSUME NEW t \in SUBSET Basename,
                       jobs' = [jobs EXCEPT ![j].pc = "post", ![j].before = labels,
                                            ![j].targets = t, ![j].left = t]
                PROVE  FALSE
            BY <2>1, <2>4, <5>1 DEF JobState
          <5>2. Before(j) => \/ End(j, "error")
                            \/ \E t \in SUBSET Basename :
                                 jobs' = [jobs EXCEPT ![j].pc = "post", ![j].before = labels,
                                                      ![j].targets = t, ![j].left = t]
            <6> DEFINE targets == {b \in Basename : "staging" \in labels[jobs[j].moving][b]}
            <6>1. targets \in SUBSET Basename
              OBVIOUS
            <6>2. Before(j) => \/ End(j, "error")
                              \/ jobs' = [jobs EXCEPT ![j].pc = "post", ![j].before = labels,
                                            ![j].targets = targets, ![j].left = targets]
              BY Zenon DEF Before
            <6>3. QED
              BY <6>1, <6>2, Zenon
          <5>3. ~End(j, "error")
            BY <3>1 DEF Pc, Over
          <5>4. QED
            BY <5>1, <5>2, <5>3, Zenon
        <4>2. ~Post(j)
          <5>1. ASSUME NEW b,
                       jobs' = [jobs EXCEPT ![j].pc = "delete", ![j].file = b]
                PROVE  FALSE
            BY <2>1, <2>4, <5>1 DEF JobState
          <5>2. Post(j) => \E b \in jobs[j].left :
                             jobs' = [jobs EXCEPT ![j].pc = "delete", ![j].file = b]
            BY Zenon DEF Post
          <5>3. QED
            BY <5>1, <5>2, Zenon
        <4>3. ~Delete(j)
          BY <2>1, <2>4, <3>1 DEF Delete, JobState, Pc, Over
        <4>4. QED
          BY <4>1, <4>2, <4>3
      <3>6. ~After(j) /\ ~BreakOff(j)
        BY <2>1, <2>4, <3>1, <3>2 DEF After, BreakOff, Pc, Over
      <3>7. Retire(j)
        BY <2>2, <2>3, <3>3, <3>4, <3>5, <3>6 DEF Act
      <3>8. jobs[j].todo = {} /\ End(j, "ok")
        <4>1. ASSUME NEW u \in jobs[j].todo, Take(j, u) PROVE FALSE
          BY <2>1, <2>4, <4>1 DEF Take, JobState
        <4>2. ~End(j, "refused")
          BY <3>1 DEF Pc, Over
        <4>3. QED
          BY <2>1, <3>7, <4>1, <4>2, RetireFrame
      <3>9. QED
        BY <2>1, <3>7, <3>8, RetireFrame
    <2>6. Unstaged(w)
      BY <2>1, <2>5 DEF SoloInv, Retiring
    <2>7. QED
      BY <2>5, <2>6 DEF Unstaged, On
  <1>2. QED
    BY <1>1, SpecSolo, PTL DEF Spec, OneCandidate
-----------------------------------------------------------------------------
(* Jobs that neither overlap nor break off.  Between jobs every file of a     *)
(* version carries one and the same label, or none; a job at work leaves that *)
(* so for all versions but the one it uploads or moves, and of that one each  *)
(* file is where the job's progress says.                                     *)
Only(w, l) == \A b \in Basename : labels[w][b] = {l}
Bare(w) == \A b \in Basename : labels[w][b] = {}
Settled(w) == Bare(w) \/ \E l \in Label : Only(w, l)

Moving == {"post", "delete", "after"}
Disturbs(j, w) == \/ jobs[j].pc = "upload" /\ w = VersionOf(j)
                  \/ jobs[j].pc \in Moving /\ w = jobs[j].moving

HalfMoved(j, b) ==
    IF b \notin jobs[j].left THEN {To(j)}
    ELSE IF jobs[j].pc = "delete" /\ b = jobs[j].file THEN {"staging", To(j)}
    ELSE {"staging"}

InHand(j) ==
    /\ jobs[j].pc = "upload" =>
         \A b \in Basename : labels[VersionOf(j)][b] \in {{}, {"staging"}}
    /\ KindOf(j) = "publish" /\ jobs[j].pc \in AtWork =>
         \A w \in jobs[j].todo : \E b \in Basename : "staging" \in labels[w][b]
    /\ jobs[j].pc \in Moving =>
         /\ jobs[j].targets = Basename
         /\ \A b \in Basename : labels[jobs[j].moving][b] = HalfMoved(j, b)
         /\ \A w \in Version \ {jobs[j].moving} : jobs[j].before[w] = labels[w]
    /\ jobs[j].pc = "delete" => jobs[j].file \in jobs[j].left
    /\ jobs[j].pc = "after" => jobs[j].left = {}

Reported(j) ==
    /\ jobs[j].pc # "refused"
    /\ KindOf(j) = "promote" /\ jobs[j].pc = "ok" => Only(VersionOf(j), "main")
    /\ KindOf(j) = "publish" /\ jobs[j].pc = "idle" => Bare(VersionOf(j))

CalmInv ==
    ~overlapped /\ failures = 0 =>
        /\ \A w \in Version : Settled(w) \/ \E j \in Job : Disturbs(j, w)
        /\ \A j \in Job : InHand(j) /\ Reported(j)

LEMMA CalmInit == Init => CalmInv
  <1> SUFFICES ASSUME Init PROVE CalmInv
    OBVIOUS
  <1>1. \A j \in Job : jobs[j].pc = "idle" /\ VersionOf(j) \in Version
    BY NewJobType DEF Init, Pc, Over, Job, VersionOf
  <1>2. \A w \in Version : Bare(w)
    BY DEF Init, Nothing, Bare
  <1>3. \A j \in Job : InHand(j) /\ Reported(j)
    BY <1>1, <1>2 DEF InHand, Reported, AtWork, Moving
  <1>4. QED
    BY <1>2, <1>3 DEF CalmInv, Settled

LEMMA FailuresGrow ==
  ASSUME NEW j \in Job, Act(j)
  PROVE  failures' = failures \/ failures' = failures + 1
  <1>1. CASE List(j)
    <2>1. UNCHANGED <<labels, archived, failures, overlapped>>
      BY <1>1, Zenon DEF List
    <2>2. QED
      BY <2>1
  <1>2. CASE Before(j)
    <2>1. UNCHANGED <<labels, archived, failures, overlapped>>
      BY <1>2, Zenon DEF Before
    <2>2. QED
      BY <2>1
  <1>3. CASE Retire(j)
    <2>1. UNCHANGED <<labels, failures, overlapped>>
      BY <1>3, Zenon DEF Retire
    <2>2. QED
      BY <2>1
  <1>4. QED
    BY <1>1, <1>2, <1>3 DEF Act, Tag, Upload, Post, Delete, After, BreakOff

(* A step changes the labels of a version only while its own job has a file   *)
(* of it to upload, or it has a file on staging.                              *)
LEMMA CalmLabels ==
  ASSUME ChannelInv, NEW j \in Job, Act(j), InHand(j), NEW w \in Version
  PROVE  \/ labels'[w] = labels[w]
         \/ j = <<"publish", w>> /\ \E b \in Basename : labels[w][b] = {}
         \/ \E b \in Basename : "staging" \in labels[w][b]
  <1>0. /\ labels \in [Version -> [Basename -> SUBSET Label]]
        /\ jobs[j].left \subseteq Basename /\ jobs[j].file \in Basename
        /\ jobs[j].moving \in Version
    BY DEF ChannelInv, TypeOK, JobState, Channel
  <1>1. CASE Upload(j)
    <2>1. KindOf(j) = "publish"
      BY <1>1 DEF Upload, ChannelInv, JobsOK, KindOf, Job
    <2>2. CASE w = VersionOf(j)
      <3>1. j = <<"publish", w>>
        BY <2>1, <2>2 DEF KindOf, VersionOf, Job
      <3>2. labels' = labels \/ \E b \in Basename : labels[w][b] = {}
        BY <1>1, <2>2 DEF Upload
      <3>3. QED
        BY <3>1, <3>2
    <2>3. CASE w # VersionOf(j)
      BY <1>0, <1>1, <2>3 DEF Upload
    <2>4. QED
      BY <2>2, <2>3
  <1>2. CASE Post(j)
    <2>1. PICK b \in jobs[j].left :
            /\ labels' = [labels EXCEPT ![jobs[j].moving][b] = @ \cup {To(j)}]
            /\ jobs[j].pc = "post"
      BY <1>2 DEF Post
    <2>2. "staging" \in labels[jobs[j].moving][b]
      BY <1>0, <2>1 DEF InHand, Moving, HalfMoved
    <2>3. QED
      BY <1>0, <2>1, <2>2
  <1>3. CASE Delete(j)
    <2>1. jobs[j].pc = "delete"
      BY <1>3 DEF Delete
    <2>2. "staging" \in labels[jobs[j].moving][jobs[j].file]
      BY <1>0, <2>1 DEF InHand, Moving, HalfMoved
    <2>3. \/ labels' = [labels EXCEPT ![jobs[j].moving][jobs[j].file] = @ \ {"staging"}]
          \/ labels' = labels
      BY <1>3 DEF Delete
    <2>4. QED
      BY <1>0, <2>2, <2>3
  <1>4. CASE ~Upload(j) /\ ~Post(j) /\ ~Delete(j)
    <2>1. labels' = labels
      <3>1. CASE Tag(j) \/ After(j) \/ BreakOff(j)
        BY <3>1 DEF Tag, After, BreakOff
      <3>2. QED
        BY <1>4, <3>1, ListFrame, BeforeFrame, RetireFrame DEF Act
    <2>2. QED
      BY <2>1
  <1>5. QED
    BY <1>1, <1>2, <1>3, <1>4

(* What is calm about one job at work, the others being over.                 *)
CalmAt(j) == /\ \A w \in Version : Settled(w) \/ Disturbs(j, w)
             /\ InHand(j) /\ Reported(j)

LEMMA CalmOwn ==
  ASSUME ChannelInv, SoloInv, ~overlapped, failures = 0, failures' = 0,
         NEW j \in Job, Act(j), CalmAt(j)
  PROVE  CalmAt(j)'
  <1> DEFINE v == VersionOf(j)
             m == jobs[j].moving
  <1>0. /\ v \in Version /\ jobs \in [Job -> JobState] /\ jobs[j] \in JobState
        /\ labels \in [Version -> [Basename -> SUBSET Label]]
        /\ m \in Version /\ jobs[j].file \in Basename
        /\ jobs[j].left \subseteq Basename /\ jobs[j].todo \subseteq Version
        /\ To(j) \in {"main", "attic"} /\ To(j) \in Label
        /\ KindOf(j) \in {"publish", "promote"}
    BY DEF ChannelInv, TypeOK, JobState, Job, VersionOf, KindOf, Channel, To, Label
  <1>k. KindOf(j) = "promote" => m = v /\ jobs[j].pc \notin {"upload", "list", "next"}
    BY DEF ChannelInv, JobsOK
  <1>r. KindOf(j) = "publish" => Retiring(jobs[j], v)
    BY DEF SoloInv
  <1>s. ASSUME labels' = labels
        PROVE  \A w \in Version : /\ Settled(w)' = Settled(w)
                                  /\ \A b \in Basename : labels'[w][b] = labels[w][b]
    BY <1>s DEF Settled, Bare, Only
  <1>q. ASSUME jobs[j].pc \notin Moving \cup {"upload"} PROVE \A w \in Version : Settled(w)
    BY <1>q DEF CalmAt, Disturbs
  <1>e. ASSUME NEW pc \in {"ok", "error"}, End(j, pc), \A w \in Version : Settled(w)',
               pc = "ok" /\ KindOf(j) = "promote" => Only(v, "main")'
        PROVE  CalmAt(j)'
    <2>1. jobs'[j].pc = pc
      BY <1>0, <1>e, NewJobType DEF End, Pc, Over
    <2>2. InHand(j)'
      BY <2>1 DEF InHand, AtWork, Moving
    <2>3. Reported(j)'
      BY <1>e, <2>1 DEF Reported
    <2>4. QED
      BY <1>e, <2>2, <2>3 DEF CalmAt
  <1>1. CASE Tag(j)
    <2>1. labels' = labels /\ jobs[j].pc \in {"idle", "error"}
      BY <1>1 DEF Tag
    <2>2. \A w \in Version : Settled(w)'
      BY <1>q, <1>s, <2>1 DEF Moving
    <2>3. \/ KindOf(j) = "publish" /\ jobs[j].pc = "idle" /\ jobs'[j].pc = "upload"
          \/ KindOf(j) = "promote" /\ jobs'[j].pc = "before"
      BY <1>0, <1>1 DEF Tag, Goto, JobState
    <2>4. InHand(j)'
      <3>1. KindOf(j) = "publish" => \A b \in Basename : labels'[v][b] = {}
        BY <2>1, <2>3 DEF CalmAt, Reported, Bare
      <3>2. QED
        BY <2>3, <3>1 DEF InHand, AtWork, Moving
    <2>5. Reported(j)'
      BY <2>3 DEF Reported
    <2>6. QED
      BY <2>2, <2>4, <2>5 DEF CalmAt
  <1>2. CASE Upload(j)
    <2>0. KindOf(j) = "publish" /\ jobs[j].pc = "upload"
      BY <1>0, <1>2, <1>k DEF Upload
    <2>1. \A b \in Basename : labels[v][b] \in {{}, {"staging"}}
      BY <2>0 DEF CalmAt, InHand
    <2>2. \A w \in Version \ {v} : Settled(w)
      BY <2>0 DEF CalmAt, Disturbs, Moving
    <2>3. CASE UNCHANGED jobs
      <3>1. PICK b \in Basename : labels' = [labels EXCEPT ![v][b] = {"staging"}]
        <4>1. ~Goto(j, "list")
          BY <1>0, <2>0, <2>3 DEF Goto, JobState
        <4>2. QED
          BY <1>2, <4>1 DEF Upload
      <3>2. \A w \in Version \ {v} : Settled(w)'
        BY <1>0, <2>2, <3>1 DEF Settled, Bare, Only
      <3>3. \A c \in Basename : labels'[v][c] \in {{}, {"staging"}}
        BY <1>0, <2>1, <3>1
      <3>4. jobs'[j].pc = "upload"
        BY <2>0, <2>3
      <3>5. InHand(j)' /\ Reported(j)'
        BY <3>3, <3>4 DEF InHand, Reported, AtWork, Moving
      <3>6. QED
        BY <3>2, <3>4, <3>5 DEF CalmAt, Disturbs
    <2>4. CASE Published(v) /\ Goto(j, "list") /\ UNCHANGED labels
      <3>1. Only(v, "staging")
        BY <2>1, <2>4 DEF Published, Only
      <3>2. \A w \in Version : Settled(w)'
        BY <1>s, <2>2, <2>4, <3>1 DEF Settled, Label
      <3>3. jobs'[j].pc = "list"
        BY <1>0, <2>4 DEF Goto, JobState
      <3>4. InHand(j)' /\ Reported(j)'
        BY <3>3 DEF InHand, Reported, AtWork, Moving
      <3>5. QED
        BY <3>2, <3>4 DEF CalmAt
    <2>5. QED
      BY <1>2, <2>3, <2>4 DEF Upload
  <1>3. CASE List(j)
    <2> DEFINE others == {w \in Version \ {v} : "staging" \in On(labels, w)}
               seen == [w \in Version |-> IF w \in others THEN labels[w] ELSE Nothing[w]]
    <2>1. jobs' = [jobs EXCEPT ![j].pc = "next", ![j].todo = others, ![j].seen = seen]
      BY <1>3, Zenon DEF List
    <2>2. \A w \in others : \E b \in Basename : "staging" \in labels[w][b]
      BY DEF On
    <2> HIDE DEF others, seen
    <2>3. jobs[j].pc = "list" /\ labels' = labels
      BY <1>3, ListFrame
    <2>4. jobs'[j].pc = "next" /\ jobs'[j].todo = others
      BY <1>0, <2>1 DEF JobState
    <2>5. \A w \in Version : Settled(w)'
      BY <1>q, <1>s, <2>3 DEF Moving
    <2>6. InHand(j)' /\ Reported(j)'
      BY <2>2, <2>3, <2>4 DEF InHand, Reported, AtWork, Moving
    <2>7. QED
      BY <2>5, <2>6 DEF CalmAt
  <1>4. CASE Retire(j)
    <2>0. /\ KindOf(j) = "publish" /\ jobs[j].pc = "next" /\ labels' = labels
          /\ \A w \in Version : Settled(w)
      BY <1>0, <1>4, <1>k, <1>q, RetireFrame DEF Moving
    <2>1. \A w \in Version : Settled(w)'
      BY <1>s, <2>0
    <2>2. CASE End(j, "ok")
      BY <1>e, <2>0, <2>1, <2>2
    <2>3. ASSUME NEW w \in jobs[j].todo PROVE "main" \notin On(jobs[j].seen, w)
      <3>1. jobs[j].seen[w] = labels[w] /\ \E b \in Basename : "staging" \in labels[w][b]
        BY <1>r, <2>0 DEF CalmAt, InHand, AtWork, Retiring
      <3>2. Only(w, "staging")
        BY <1>0, <2>0, <3>1 DEF Settled, Bare, Only
      <3>3. QED
        BY <3>1, <3>2 DEF On, Only
    <2>4. ASSUME NEW w \in jobs[j].todo, Take(j, w) PROVE CalmAt(j)'
      <3>1. jobs'[j].pc = "before" /\ jobs'[j].todo \subseteq jobs[j].todo
        BY <1>0, <2>4 DEF Take, JobState
      <3>2. \A u \in jobs[j].todo : \E b \in Basename : "staging" \in labels[u][b]
        BY <2>0 DEF CalmAt, InHand, AtWork
      <3>3. InHand(j)' /\ Reported(j)'
        BY <2>0, <3>1, <3>2 DEF InHand, Reported, AtWork, Moving
      <3>4. QED
        BY <2>1, <3>3 DEF CalmAt
    <2>5. \/ End(j, "ok") \/ \E w \in jobs[j].todo : "main" \in On(jobs[j].seen, w)
          \/ \E w \in jobs[j].todo : Take(j, w)
      BY <1>4, Zenon DEF Retire, Take
    <2>6. QED
      BY <2>2, <2>3, <2>4, <2>5
  <1>5. CASE Before(j)
    <2>0. /\ jobs[j].pc = "before" /\ labels' = labels
          /\ \A w \in Version : Settled(w)
      BY <1>5, <1>q, BeforeFrame DEF Moving
    <2>1. \A w \in Version : Settled(w)'
      BY <1>s, <2>0
    <2>2. CASE End(j, "error")
      BY <1>e, <2>1, <2>2
    <2>3. CASE ~End(j, "error")
      <3> DEFINE targets == {b \in Basename : "staging" \in labels[jobs[j].moving][b]}
      <3>0. targets # {}
        BY <1>5, <2>3, Zenon DEF Before
      <3>1. jobs' = [jobs EXCEPT ![j].pc = "post", ![j].before = labels,
                                 ![j].targets = targets, ![j].left = targets]
        BY <1>5, <2>3, Zenon DEF Before
      <3>2. Only(m, "staging")
        <4>1. \E b \in Basename : "staging" \in labels[m][b]
          BY <3>0
        <4>2. QED
          BY <1>0, <2>0, <4>1 DEF Settled, Bare, Only
      <3>3. targets = Basename
        BY <3>2 DEF Only
      <3> HIDE DEF targets
      <3>4. /\ jobs'[j].pc = "post" /\ jobs'[j].before = labels
            /\ jobs'[j].targets = Basename /\ jobs'[j].left = Basename
            /\ jobs'[j].moving = m /\ jobs'[j].todo = jobs[j].todo
        BY <1>0, <3>1, <3>3 DEF JobState
      <3>5. \A b \in Basename : HalfMoved(j, b)' = {"staging"}
        BY <3>4 DEF HalfMoved
      <3>6. \A b \in Basename : labels'[m][b] = HalfMoved(j, b)'
        BY <2>0, <3>2, <3>5 DEF Only
      <3>7. KindOf(j) = "publish" =>
              \A w \in jobs[j].todo : \E b \in Basename : "staging" \in labels'[w][b]
        BY <2>0 DEF CalmAt, InHand, AtWork
      <3>8. InHand(j)'
        BY <2>0, <3>4, <3>6, <3>7 DEF InHand, AtWork, Moving
      <3>9. Reported(j)'
        BY <3>4 DEF Reported
      <3>10. QED
        BY <2>1, <3>8, <3>9 DEF CalmAt
    <2>4. QED
      BY <2>2, <2>3
  <1>6. CASE Post(j) \/ Delete(j)
    <2>0. /\ jobs[j].pc \in {"post", "delete"} /\ jobs[j].targets = Basename
          /\ \A b \in Basename : labels[m][b] = HalfMoved(j, b)
          /\ \A w \in Version \ {m} : jobs[j].before[w] = labels[w]
          /\ \A w \in Version \ {m} : Settled(w)
      <3>1. jobs[j].pc \in {"post", "delete"}
        BY <1>6 DEF Post, Delete
      <3>2. QED
        BY <3>1 DEF CalmAt, InHand, Moving, Disturbs
    <2>1. KindOf(j) = "publish" =>
            /\ m \notin jobs[j].todo
            /\ \A w \in jobs[j].todo : \E b \in Basename : "staging" \in labels[w][b]
      BY <1>r, <2>0 DEF Retiring, Relabelling, AtWork, CalmAt, InHand
    <2>a. ASSUME \A w \in Version \ {m} : labels'[w] = labels[w],
                 \A b \in Basename : labels'[m][b] = HalfMoved(j, b)',
                 jobs'[j].pc \in Moving, jobs'[j].moving = m,
                 jobs'[j].todo = jobs[j].todo, jobs'[j].targets = Basename,
                 jobs'[j].before = jobs[j].before,
                 jobs'[j].pc = "delete" => jobs'[j].file \in jobs'[j].left,
                 jobs'[j].pc = "after" => jobs'[j].left = {}
          PROVE  CalmAt(j)'
      <3>1. \A w \in Version \ {m} : Settled(w)'
        BY <2>0, <2>a DEF Settled, Bare, Only
      <3>2. \A w \in Version : Settled(w)' \/ Disturbs(j, w)'
        BY <2>a, <3>1 DEF Disturbs
      <3>3. KindOf(j) = "publish" =>
              \A w \in jobs[j].todo : \E b \in Basename : "staging" \in labels'[w][b]
        BY <1>0, <2>1, <2>a
      <3>4. InHand(j)'
        BY <2>0, <2>a, <3>3 DEF InHand, Moving, AtWork
      <3>5. Reported(j)'
        BY <2>a DEF Reported, Moving
      <3>6. QED
        BY <3>2, <3>4, <3>5 DEF CalmAt
    <2>2. CASE Post(j)
      <3>1. PICK b \in jobs[j].left :
              /\ labels' = [labels EXCEPT ![m][b] = @ \cup {To(j)}]
              /\ jobs' = [jobs EXCEPT ![j].pc = "delete", ![j].file = b]
              /\ jobs[j].pc = "post"
        BY <2>2 DEF Post
      <3>2. /\ jobs'[j].pc = "delete" /\ jobs'[j].file = b /\ jobs'[j].left = jobs[j].left
            /\ jobs'[j].moving = m /\ jobs'[j].todo = jobs[j].todo
            /\ jobs'[j].targets = jobs[j].targets /\ jobs'[j].before = jobs[j].before
        BY <1>0, <3>1 DEF JobState
      <3>3. \A w \in Version \ {m} : labels'[w] = labels[w]
        BY <1>0, <3>1
      <3>4. ASSUME NEW c \in Basename PROVE labels'[m][c] = HalfMoved(j, c)'
        <4>1. labels[m][c] = IF c \in jobs[j].left THEN {"staging"} ELSE {To(j)}
          BY <2>0, <3>1 DEF HalfMoved
        <4>2. labels'[m][c] = IF c = b THEN labels[m][c] \cup {To(j)} ELSE labels[m][c]
          BY <1>0, <3>1
        <4>3. HalfMoved(j, c)' = IF c \notin jobs[j].left THEN {To(j)}
                                 ELSE IF c = b THEN {"staging", To(j)} ELSE {"staging"}
          BY <3>2 DEF HalfMoved, To
        <4>4. QED
          BY <3>1, <4>1, <4>2, <4>3
      <3>5. QED
        BY <2>0, <2>a, <3>1, <3>2, <3>3, <3>4 DEF Moving
    <2>3. CASE Delete(j)
      <3> DEFINE left == jobs[j].left \ {jobs[j].file}
      <3>0. jobs[j].pc = "delete" /\ jobs[j].file \in jobs[j].left
        BY <2>3 DEF Delete, CalmAt, InHand
      <3>1. "staging" \in labels[m][jobs[j].file]
        BY <1>0, <2>0, <3>0 DEF HalfMoved
      <3>2. /\ labels' = [labels EXCEPT ![m][jobs[j].file] = @ \ {"staging"}]
            /\ jobs' = [jobs EXCEPT ![j].left = left,
                                    ![j].pc = IF left = {} THEN "after" ELSE "post"]
        BY <2>3, <3>1 DEF Delete
      <3>3. /\ jobs'[j].pc = IF left = {} THEN "after" ELSE "post"
            /\ jobs'[j].left = left
            /\ jobs'[j].moving = m /\ jobs'[j].todo = jobs[j].todo
            /\ jobs'[j].targets = jobs[j].targets /\ jobs'[j].before = jobs[j].before
        BY <1>0, <3>2 DEF JobState
      <3>4. \A w \in Version \ {m} : labels'[w] = labels[w]
        BY <1>0, <3>2
      <3>5. ASSUME NEW c \in Basename PROVE labels'[m][c] = HalfMoved(j, c)'
        <4>1. labels[m][c] = IF c \notin jobs[j].left THEN {To(j)}
                             ELSE IF c = jobs[j].file THEN {"staging", To(j)}
                             ELSE {"staging"}
          BY <2>0, <3>0 DEF HalfMoved
        <4>2. labels'[m][c] = IF c = jobs[j].file THEN labels[m][c] \ {"staging"}
                                                  ELSE labels[m][c]
          BY <1>0, <3>2
        <4>3. HalfMoved(j, c)' = IF c \notin left THEN {To(j)} ELSE {"staging"}
          BY <3>3 DEF HalfMoved, To
        <4>4. QED
          BY <1>0, <3>0, <4>1, <4>2, <4>3
      <3>6. jobs'[j].pc \in Moving /\ jobs'[j].pc # "delete"
            /\ (jobs'[j].pc = "after" => jobs'[j].left = {})
        BY <3>3 DEF Moving
      <3> HIDE DEF left
      <3>7. QED
        BY <2>0, <2>a, <3>3, <3>4, <3>5, <3>6
    <2>4. QED
      BY <1>6, <2>2, <2>3
  <1>7. CASE After(j)
    <2>0. jobs[j].pc = "after" /\ labels' = labels
      BY <1>7 DEF After
    <2>1. /\ Only(m, To(j)) /\ jobs[j].targets = Basename
          /\ \A w \in Version \ {m} : jobs[j].before[w] = labels[w] /\ Settled(w)
      BY <2>0 DEF CalmAt, InHand, Moving, HalfMoved, Only, Disturbs
    <2>2. \A w \in Version : Settled(w)'
      BY <1>0, <1>s, <2>0, <2>1 DEF Settled
    <2>3. Moved(j) /\ ~Collateral(j)
      BY <1>0, <2>1 DEF Moved, Collateral, Only
    <2>4. CASE KindOf(j) = "promote"
      <3>1. End(j, "ok")
        BY <1>7, <2>3, <2>4 DEF After
      <3>2. Only(v, "main")'
        BY <1>0, <1>k, <2>0, <2>1, <2>4 DEF Only, To
      <3>3. QED
        BY <1>e, <2>2, <3>1, <3>2
    <2>5. CASE KindOf(j) # "promote"
      <3>1. Goto(j, "next")
        BY <1>7, <2>3, <2>5 DEF After
      <3>2. jobs'[j].pc = "next" /\ jobs'[j].todo = jobs[j].todo
        BY <1>0, <3>1 DEF Goto, JobState
      <3>3. InHand(j)' /\ Reported(j)'
        BY <2>0, <3>2 DEF CalmAt, InHand, Reported, AtWork, Moving
      <3>4. QED
        BY <2>2, <3>3 DEF CalmAt
    <2>6. QED
      BY <2>4, <2>5
  <1>8. CASE BreakOff(j)
    BY <1>8 DEF BreakOff
  <1>9. QED
    BY <1>1, <1>2, <1>3, <1>4, <1>5, <1>6, <1>7, <1>8 DEF Act

LEMMA CalmStep == ChannelInv /\ SoloInv /\ CalmInv /\ [Next]_vars => CalmInv'
  <1> SUFFICES ASSUME ChannelInv, SoloInv, CalmInv, [Next]_vars, ~overlapped', failures' = 0
               PROVE  /\ \A w \in Version : Settled(w)' \/ \E j \in Job : Disturbs(j, w)'
                      /\ \A j \in Job : InHand(j)' /\ Reported(j)'
    BY DEF CalmInv
  <1>1. CASE UNCHANGED vars
    <2>1. labels' = labels /\ jobs' = jobs /\ overlapped' = overlapped
          /\ failures' = failures
      BY <1>1 DEF vars
    <2>2. \A w \in Version : Settled(w)' <=> Settled(w)
      BY <2>1 DEF Settled, Bare, Only
    <2>3. \A j \in Job, w \in Version : Disturbs(j, w)' <=> Disturbs(j, w)
      BY <2>1 DEF Disturbs
    <2>4. \A j \in Job : InHand(j)' <=> InHand(j)
      BY <2>1 DEF InHand, HalfMoved, To
    <2>5. \A j \in Job : Reported(j)' <=> Reported(j)
      BY <2>1 DEF Reported, Bare, Only
    <2>6. QED
      BY <2>1, <2>2, <2>3, <2>4, <2>5 DEF CalmInv
  <1>2. ASSUME NEW j \in Job, Act(j)
        PROVE  /\ \A w \in Version : Settled(w)' \/ \E k \in Job : Disturbs(k, w)'
               /\ \A k \in Job : InHand(k)' /\ Reported(k)'
    <2>1. /\ ~overlapped
          /\ \A k \in Job \ {j} : jobs'[k] = jobs[k] /\ jobs[k].pc \in Over
      BY <1>2, AloneStep
    <2>2. failures = 0
      <3>1. failures \in Nat /\ (failures' = failures \/ failures' = failures + 1)
        BY <1>2, FailuresGrow DEF ChannelInv, TypeOK
      <3>2. QED
        BY <3>1
    <2>3. \A w \in Version : Settled(w) \/ \E k \in Job : Disturbs(k, w)
      BY <2>1, <2>2 DEF CalmInv
    <2>4. \A k \in Job : InHand(k) /\ Reported(k)
      BY <2>1, <2>2 DEF CalmInv
    <2>5. \A k \in Job \ {j}, w \in Version : ~Disturbs(k, w)
      BY <2>1 DEF Disturbs, Moving, Over
    <2>6. CalmAt(j)'
      <3>1. CalmAt(j)
        BY <2>3, <2>4, <2>5 DEF CalmAt
      <3>2. QED
        BY <1>2, <2>1, <2>2, <3>1, CalmOwn
    <2>7. ASSUME NEW k \in Job \ {j} PROVE InHand(k)' /\ Reported(k)'
      <3>1. jobs'[k] = jobs[k] /\ jobs[k].pc \in Over
        BY <2>1
      <3>2. InHand(k)'
        BY <3>1 DEF InHand, Over, AtWork, Moving
      <3>3. /\ VersionOf(k) \in Version
            /\ KindOf(k) = "publish" => k = <<"publish", VersionOf(k)>>
        BY DEF Job, VersionOf, KindOf
      <3>4. ASSUME KindOf(k) = "promote", jobs[k].pc = "ok"
            PROVE  Only(VersionOf(k), "main")'
        <4>1. Only(VersionOf(k), "main")
          BY <2>4, <3>4 DEF Reported
        <4>2. \A b \in Basename : "main" \in labels[VersionOf(k)][b]
          BY <4>1 DEF Only
        <4>3. \A b \in Basename : labels[VersionOf(k)][b] # {}
          BY <4>1 DEF Only
        <4>4. QED
          BY <1>2, <2>4, <3>3, <4>1, <4>3, CalmLabels DEF Only
      <3>5. ASSUME KindOf(k) = "publish", jobs[k].pc = "idle"
            PROVE  Bare(VersionOf(k))'
        <4>1. Bare(VersionOf(k))
          BY <2>4, <3>5 DEF Reported
        <4>2. j # <<"publish", VersionOf(k)>>
          BY <3>3, <3>5
        <4>3. QED
          BY <1>2, <2>4, <3>3, <4>1, <4>2, CalmLabels DEF Bare
      <3>6. Reported(k)'
        BY <2>4, <3>1, <3>4, <3>5 DEF Reported
      <3>7. QED
        BY <3>2, <3>6
    <2>8. QED
      BY <2>6, <2>7 DEF CalmAt
  <1>3. QED
    BY <1>1, <1>2 DEF Next, Act

(* The jobs do what they report as long as none overlaps another or breaks    *)
(* off, for any versions and files: a promotion moves the whole version, and  *)
(* no candidate a publish job retires is on main as well.                     *)
THEOREM ChannelWholeUndisturbed == Spec => []WholeUndisturbed
  <1>1. Init => ChannelInv /\ SoloInv /\ CalmInv
    BY ChannelInit, SoloInit, CalmInit
  <1>2. (ChannelInv /\ SoloInv /\ CalmInv) /\ [Next]_vars
          => (ChannelInv /\ SoloInv /\ CalmInv)'
    BY ChannelStep, SoloStep, CalmStep
  <1>3. CalmInv => WholeUndisturbed
    <2> SUFFICES ASSUME CalmInv, ~overlapped, failures = 0
                 PROVE  MovedWhole /\ \A j \in Job : jobs[j].pc # "refused"
      BY DEF WholeUndisturbed, MovedWholeUndisturbed, NeverRefusedUndisturbed
    <2>1. \A j \in Job : Reported(j)
      BY DEF CalmInv
    <2>2. ASSUME NEW v \in Version, jobs[<<"promote", v>>].pc = "ok", NEW b \in Basename
          PROVE  "main" \in labels[v][b]
      <3>1. <<"promote", v>> \in Job /\ KindOf(<<"promote", v>>) = "promote"
            /\ VersionOf(<<"promote", v>>) = v
        BY DEF Job, KindOf, VersionOf
      <3>2. Only(v, "main")
        BY <2>1, <2>2, <3>1 DEF Reported
      <3>3. QED
        BY <3>2 DEF Only
    <2>3. QED
      BY <2>1, <2>2 DEF MovedWhole, Reported
  <1>4. QED
    BY <1>1, <1>2, <1>3, PTL DEF Spec
=============================================================================

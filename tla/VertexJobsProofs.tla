-------------------------- MODULE VertexJobsProofs --------------------------
(***************************************************************************)
(* What the experiment matrix and the slot ledgers guarantee for any       *)
(* number of invocations, launchers, pairs, jobs and slots.                *)
(*                                                                         *)
(* Matrix. A job closes its label by uploading the epoch curve first, on a *)
(* label nobody has closed, and every launcher and script that waits for a *)
(* job waits for a job of its pair; so the objects under a label are of    *)
(* the job of its curve, and a pair a script has passed was closed by a    *)
(* job that succeeded.                                                     *)
(*                                                                         *)
(* Slots. Only the lock holder writes; between its reservation and its     *)
(* last update a launcher's row is the last one and is not validated, so   *)
(* nobody can reserve after it, and the rows it read before it took the    *)
(* lock are still the rows when it writes them back.                       *)
(***************************************************************************)
EXTENDS JobMatrix, SubmissionSlots, FiniteSetTheorems, TLAPS

-----------------------------------------------------------------------------
(* The matrix.                                                             *)

\* What an invocation has behind it and what it waits for.
ScriptPart(s) ==
  /\ script[s].pair \in Invocations[s].from..Invocations[s].to
  /\ script[s].pc = "poll" =>
       script[s].job \in DOMAIN jobs /\ jobs[script[s].job].pair = script[s].pair
  /\ script[s].pc = "watch" => launcher[s].pair = script[s].pair
  /\ \A p \in Behind(s) : \E j \in DOMAIN jobs : jobs[j].state = "succeeded" /\ jobs[j].pair = p

\* The job a launcher has asked for is a job of its pair.
LauncherPart(s) ==
  /\ launcher[s].job # NoJob =>
       launcher[s].job \in DOMAIN jobs /\ jobs[launcher[s].job].pair = launcher[s].pair
  /\ launcher[s].pc \in {"await", "poll"} => launcher[s].job # NoJob

\* What a job has uploaded when it comes to its next upload, and when it has
\* succeeded.
JobPart(j) ==
  /\ jobs[j].phase = "ckpt" => label[jobs[j].pair]["curve"] = j
  /\ jobs[j].phase = "evidence" => \A o \in {"curve", "ckpt"} : label[jobs[j].pair][o] = j
  /\ jobs[j].state = "succeeded" => \A o \in Objects : label[jobs[j].pair][o] = j

\* The epoch curve comes first: the other objects under a label are of its job.
LabelPart == \A p \in Pairs : \A o \in Objects : label[p][o] \in {NoJob, label[p]["curve"]}

MatrixInv ==
  /\ MatrixTypeOK
  /\ \A s \in Scripts : ScriptPart(s) /\ LauncherPart(s)
  /\ \A j \in DOMAIN jobs : JobPart(j)
  /\ LabelPart

-----------------------------------------------------------------------------
\* The constants as the proofs use them.
LEMMA MatrixConstants ==
  /\ NumPairs \in Nat \ {0} /\ MaxJobs \in Nat \ {0}
  /\ \A s \in Scripts :
       /\ Invocations[s].from \in Pairs /\ Invocations[s].to \in Pairs
       /\ Invocations[s].from <= Invocations[s].to
  <1>1. Invocations \in Seq([from : 1..NumPairs, to : 1..NumPairs, attempts : Nat \ {0},
                            optIn : BOOLEAN])
    BY MatrixAssumption DEF MatrixAssumption
  <1> DEFINE R == [from : 1..NumPairs, to : 1..NumPairs, attempts : Nat \ {0}, optIn : BOOLEAN]
  <1>2. \A s \in Scripts : Invocations[s] \in R
    <2> HIDE DEF R
    <2>1. Invocations \in Seq(R)
      BY <1>1 DEF R
    <2> QED
      BY <2>1 DEF Scripts
  <1>3. /\ NumPairs \in Nat \ {0} /\ MaxJobs \in Nat \ {0}
        /\ \A s \in Scripts : Invocations[s].from <= Invocations[s].to
    BY MatrixAssumption DEF MatrixAssumption, Scripts
  <1> QED
    BY <1>2, <1>3 DEF Pairs

\* No job is forgotten, changes its pair, or leaves the state "succeeded".
JobsGrow ==
  \A j \in DOMAIN jobs :
    /\ j \in DOMAIN jobs' /\ jobs'[j].pair = jobs[j].pair
    /\ jobs[j].state = "succeeded" => jobs'[j].state = "succeeded"

\* No object is overwritten.
LabelGrows ==
  \A p \in Pairs : \A o \in Objects : label[p][o] # NoJob => label'[p][o] = label[p][o]

\* The types of a job, and of what it finds under its label.
LEMMA JobType ==
  ASSUME MatrixTypeOK, NEW j \in DOMAIN jobs
  PROVE  /\ jobs[j] \in Request /\ jobs[j].pair \in Pairs
         /\ j \in 1..MaxJobs /\ j # NoJob
         /\ \A o \in Objects : label[jobs[j].pair][o] \in 0..MaxJobs
  <1>1. jobs \in Seq(Request) /\ Len(jobs) <= MaxJobs
    BY DEF MatrixTypeOK
  <1>2. jobs[j] \in Request /\ j \in 1..Len(jobs) /\ Len(jobs) \in Nat
    BY <1>1
  <1>3. jobs[j].pair \in Pairs
    BY <1>2 DEF Request
  <1>4. j \in 1..MaxJobs /\ j # NoJob
    BY <1>1, <1>2, MatrixConstants DEF NoJob
  <1> QED
    BY <1>2, <1>3, <1>4 DEF MatrixTypeOK

\* A step moves one invocation and its launcher at most: the others keep what is
\* said of them.
LEMMA OneScriptMoves ==
  ASSUME MatrixInv, MatrixTypeOK', JobsGrow, NEW s \in Scripts,
         \A t \in Scripts \ {s} : script'[t] = script[t] /\ launcher'[t] = launcher[t],
         ScriptPart(s)', LauncherPart(s)',
         \A j \in DOMAIN jobs' : JobPart(j)', LabelPart'
  PROVE  MatrixInv'
  <1>1. ASSUME NEW t \in Scripts \ {s}
        PROVE  ScriptPart(t)' /\ LauncherPart(t)'
    <2>1. script'[t] = script[t] /\ launcher'[t] = launcher[t]
      OBVIOUS
    <2>2. ScriptPart(t) /\ LauncherPart(t)
      BY DEF MatrixInv
    <2>3. Behind(t)' = Behind(t)
      BY <2>1 DEF Behind, At
    <2>4. ScriptPart(t)'
      BY <2>1, <2>2, <2>3 DEF ScriptPart, JobsGrow
    <2>5. LauncherPart(t)'
      BY <2>1, <2>2 DEF LauncherPart, JobsGrow
    <2> QED
      BY <2>4, <2>5
  <1> QED
    BY <1>1 DEF MatrixInv, Scripts

\* A job moves, and creates at most objects that were absent.
LEMMA OneJobMoves ==
  ASSUME MatrixInv, UNCHANGED <<script, launcher>>,
         NEW j \in DOMAIN jobs, NEW r \in Request,
         jobs' = [jobs EXCEPT ![j] = r], r.pair = jobs[j].pair,
         jobs[j].state = "succeeded" => r.state = "succeeded",
         label' \in [Pairs -> [Objects -> 0..MaxJobs]], LabelGrows,
         JobPart(j)', LabelPart'
  PROVE  MatrixInv'
  <1>1. MatrixTypeOK /\ jobs \in Seq(Request) /\ Len(jobs) <= MaxJobs
    BY DEF MatrixInv, MatrixTypeOK
  <1>2. /\ jobs' \in Seq(Request) /\ Len(jobs') = Len(jobs) /\ DOMAIN jobs' = DOMAIN jobs
        /\ jobs'[j] = r /\ \A i \in DOMAIN jobs \ {j} : jobs'[i] = jobs[i]
    BY <1>1
  <1>3. MatrixTypeOK'
    BY <1>1, <1>2 DEF MatrixTypeOK
  <1>4. JobsGrow
    BY <1>2 DEF JobsGrow
  <1>5. ASSUME NEW i \in DOMAIN jobs'
        PROVE  JobPart(i)'
    <2>1. CASE i = j
      BY <2>1
    <2>2. CASE i # j
      <3>1. i \in DOMAIN jobs /\ jobs'[i] = jobs[i]
        BY <1>2, <2>2
      <3>2. JobPart(i) /\ jobs[i].pair \in Pairs /\ i # NoJob
        BY <3>1, <1>1, JobType DEF MatrixInv
      <3> QED
        BY <3>1, <3>2 DEF JobPart, LabelGrows, Objects
    <2> QED
      BY <2>1, <2>2
  <1>6. ASSUME NEW t \in Scripts
        PROVE  ScriptPart(t)' /\ LauncherPart(t)'
    <2>1. ScriptPart(t) /\ LauncherPart(t) /\ Behind(t)' = Behind(t)
      BY DEF MatrixInv, Behind, At
    <2>2. ScriptPart(t)'
      BY <2>1, <1>4 DEF ScriptPart, JobsGrow
    <2>3. LauncherPart(t)'
      BY <2>1, <1>4 DEF LauncherPart, JobsGrow
    <2> QED
      BY <2>2, <2>3
  <1> QED
    BY <1>3, <1>5, <1>6 DEF MatrixInv, Scripts

\* Jobs and labels stay: so does what is said of them.
LEMMA NoJobMoves ==
  ASSUME MatrixInv, UNCHANGED <<jobs, label>>
  PROVE  JobsGrow /\ LabelPart' /\ \A j \in DOMAIN jobs' : JobPart(j)'
  BY DEF MatrixInv, JobsGrow, LabelPart, JobPart

\* Only what is wanted of a job changes: its deadline passes, or it is to be cancelled.
LEMMA QueueMoves ==
  ASSUME MatrixInv, UNCHANGED label, NEW j \in DOMAIN jobs,
         NEW q \in {"ontime", "late", "cancel"}, jobs' = [jobs EXCEPT ![j].queue = q]
  PROVE  /\ jobs' \in Seq(Request) /\ Len(jobs') <= MaxJobs
         /\ JobsGrow /\ LabelPart' /\ \A i \in DOMAIN jobs' : JobPart(i)'
  <1> DEFINE r == [jobs[j] EXCEPT !.queue = q]
  <1>1. jobs \in Seq(Request) /\ Len(jobs) <= MaxJobs /\ jobs[j] \in Request
    BY JobType DEF MatrixInv, MatrixTypeOK
  <1>2. /\ r \in Request /\ r.pair = jobs[j].pair /\ r.state = jobs[j].state
        /\ r.phase = jobs[j].phase
    BY <1>1 DEF Request
  <1> HIDE DEF r
  <1>3. jobs' = [jobs EXCEPT ![j] = r]
    BY DEF r
  <1>4. /\ jobs' \in Seq(Request) /\ Len(jobs') = Len(jobs) /\ DOMAIN jobs' = DOMAIN jobs
        /\ jobs'[j] = r /\ \A i \in DOMAIN jobs \ {j} : jobs'[i] = jobs[i]
    BY <1>1, <1>2, <1>3
  <1>5. \A i \in DOMAIN jobs' :
          /\ jobs'[i].pair = jobs[i].pair /\ jobs'[i].state = jobs[i].state
          /\ jobs'[i].phase = jobs[i].phase
    BY <1>2, <1>4
  <1>6. JobsGrow /\ LabelPart'
    BY <1>4, <1>5 DEF JobsGrow, LabelPart, MatrixInv
  <1>7. \A i \in DOMAIN jobs' : JobPart(i)'
    BY <1>4, <1>5 DEF JobPart, MatrixInv
  <1> QED
    BY <1>1, <1>4, <1>6, <1>7

-----------------------------------------------------------------------------
(* The steps of an invocation.                                             *)

\* The types after a step that leaves jobs and labels well-typed.
LEMMA RecordMoves ==
  ASSUME MatrixTypeOK, NEW s \in Scripts, NEW r \in Invocation, NEW b \in Background,
         script' = [script EXCEPT ![s] = r], launcher' = [launcher EXCEPT ![s] = b],
         jobs' \in Seq(Request), Len(jobs') <= MaxJobs,
         label' \in [Pairs -> [Objects -> 0..MaxJobs]]
  PROVE  /\ MatrixTypeOK' /\ script'[s] = r /\ launcher'[s] = b
         /\ \A t \in Scripts \ {s} : script'[t] = script[t] /\ launcher'[t] = launcher[t]
  BY DEF MatrixTypeOK, Scripts

\* An invocation that stays with its pair keeps what is behind it.
LEMMA SamePair ==
  ASSUME MatrixInv, JobsGrow, NEW s \in Scripts, script'[s].pair = script[s].pair,
         script[s].pc # "done", script'[s].pc # "done",
         script'[s].pc = "poll" =>
           script'[s].job \in DOMAIN jobs' /\ jobs'[script'[s].job].pair = script[s].pair,
         script'[s].pc = "watch" => launcher'[s].pair = script[s].pair
  PROVE  ScriptPart(s)'
  <1>1. ScriptPart(s) /\ Behind(s)' = Behind(s)
    BY DEF MatrixInv, Behind, At
  <1> QED
    BY <1>1 DEF ScriptPart, JobsGrow

\* What End and NextPair leave of an invocation is well-typed.
LEMMA EndedType ==
  ASSUME NEW r \in Invocation, NEW where \in Ended
  PROVE  [r EXCEPT !.pc = where, !.attempt = 0, !.job = NoJob, !.prior = {}] \in Invocation
  <1>1. /\ 0 \in 0..MaxJobs /\ {} \in SUBSET (1..MaxJobs) /\ 0 \in Nat
        /\ where \in {"off", "lookup", "watch", "relookup", "poll"} \cup Ended
    BY MatrixConstants
  <1> QED
    BY <1>1 DEF Invocation, NoJob

\* An invocation ends before its pair is done with.
LEMMA InvocationStops ==
  ASSUME MatrixInv, NEW s \in Scripts, NEW where \in {"stopped", "dead"}, End(s, where),
         script[s].pc # "done", NEW b \in Background, launcher' = [launcher EXCEPT ![s] = b],
         jobs' \in Seq(Request), Len(jobs') <= MaxJobs, UNCHANGED label,
         JobsGrow, LabelPart', \A j \in DOMAIN jobs' : JobPart(j)',
         b.job # NoJob => b = launcher[s], b.pc \in {"await", "poll"} => b.job # NoJob
  PROVE  MatrixInv'
  <1> DEFINE r == [script[s] EXCEPT !.pc = where, !.attempt = 0, !.job = NoJob, !.prior = {}]
  <1>1. MatrixTypeOK /\ script[s] \in Invocation
    BY DEF MatrixInv, MatrixTypeOK
  <1>2. r \in Invocation /\ r.pair = script[s].pair /\ r.pc = where
    BY <1>1, EndedType DEF Invocation, Ended
  <1>3. script' = [script EXCEPT ![s] = r]
    BY DEF End
  <1> HIDE DEF r
  <1>4. /\ MatrixTypeOK' /\ script'[s] = r /\ launcher'[s] = b
        /\ \A t \in Scripts \ {s} : script'[t] = script[t] /\ launcher'[t] = launcher[t]
    BY <1>1, <1>2, <1>3, RecordMoves DEF MatrixTypeOK
  <1>5. ScriptPart(s)'
    BY <1>2, <1>4, SamePair
  <1>6. LauncherPart(s)'
    BY <1>4 DEF LauncherPart, MatrixInv, JobsGrow
  <1> QED
    BY <1>4, <1>5, <1>6, OneScriptMoves

\* An invocation goes on with its pair.
LEMMA InvocationGoesOn ==
  ASSUME MatrixInv, NEW s \in Scripts, NEW r \in Invocation, NEW b \in Background,
         script' = [script EXCEPT ![s] = r], launcher' = [launcher EXCEPT ![s] = b],
         UNCHANGED <<jobs, label>>, r.pair = script[s].pair,
         script[s].pc # "done", r.pc # "done",
         r.pc = "poll" => r.job \in DOMAIN jobs /\ jobs[r.job].pair = r.pair,
         r.pc = "watch" => b.pair = r.pair,
         b.job # NoJob => b = launcher[s], b.pc \in {"await", "poll"} => b.job # NoJob
  PROVE  MatrixInv'
  <1>1. /\ MatrixTypeOK' /\ script'[s] = r /\ launcher'[s] = b
        /\ \A t \in Scripts \ {s} : script'[t] = script[t] /\ launcher'[t] = launcher[t]
    BY RecordMoves DEF MatrixTypeOK, MatrixInv
  <1>2. ScriptPart(s)'
    BY <1>1, SamePair, NoJobMoves
  <1>3. LauncherPart(s)'
    BY <1>1 DEF LauncherPart, MatrixInv
  <1> QED
    BY <1>1, <1>2, <1>3, OneScriptMoves, NoJobMoves

\* do_pair returned 0: its pair has a succeeded job.
LEMMA PairIsDone ==
  ASSUME MatrixInv, NEW s \in Scripts, NextPair(s), script[s].pc # "done",
         NEW b \in Background, launcher' = [launcher EXCEPT ![s] = b],
         UNCHANGED <<jobs, label>>,
         \E j \in DOMAIN jobs : jobs[j].state = "succeeded" /\ jobs[j].pair = script[s].pair,
         b.job # NoJob => b = launcher[s], b.pc \in {"await", "poll"} => b.job # NoJob
  PROVE  MatrixInv'
  <1> DEFINE last == script[s].pair = Invocations[s].to
             r == IF last
                  THEN [script[s] EXCEPT !.pc = "done", !.attempt = 0, !.job = NoJob, !.prior = {}]
                  ELSE [script[s] EXCEPT !.pc = "lookup", !.pair = script[s].pair + 1,
                                         !.attempt = 0, !.job = NoJob, !.prior = {}]
  <1>1. /\ MatrixTypeOK /\ script[s] \in Invocation /\ ScriptPart(s)
    BY DEF MatrixInv, MatrixTypeOK
  <1>2. script' = [script EXCEPT ![s] = r]
    <2>1. CASE last
      BY <2>1 DEF NextPair, End
    <2>2. CASE ~ last
      BY <2>2 DEF NextPair
    <2> QED
      BY <2>1, <2>2
  <1>3. /\ script[s].pair \in Invocations[s].from..Invocations[s].to
        /\ Invocations[s].from \in Nat /\ Invocations[s].to \in 1..NumPairs /\ NumPairs \in Nat
    BY <1>1, MatrixConstants DEF ScriptPart, Pairs
  <1>4. CASE last
    <2>1. r \in Invocation /\ r.pair = script[s].pair /\ r.pc = "done"
      BY <1>1, <1>4, EndedType DEF Invocation, Ended
    <2> HIDE DEF r
    <2>2. /\ MatrixTypeOK' /\ script'[s] = r /\ launcher'[s] = b
          /\ \A t \in Scripts \ {s} : script'[t] = script[t] /\ launcher'[t] = launcher[t]
      BY <1>1, <1>2, <2>1, RecordMoves DEF MatrixTypeOK
    <2>3. \A p \in Behind(s)' : p \in Behind(s) \/ p = script[s].pair
      BY <1>3, <2>1, <2>2 DEF Behind, At
    <2>4. ScriptPart(s)'
      BY <1>1, <1>3, <2>1, <2>2, <2>3 DEF ScriptPart
    <2>5. LauncherPart(s)'
      BY <2>2 DEF LauncherPart, MatrixInv
    <2> QED
      BY <2>2, <2>4, <2>5, OneScriptMoves, NoJobMoves
  <1>5. CASE ~ last
    <2>1. script[s].pair + 1 \in Invocations[s].from..Invocations[s].to
      BY <1>3, <1>5
    <2>2. r = [script[s] EXCEPT !.pc = "lookup", !.pair = script[s].pair + 1,
                                !.attempt = 0, !.job = NoJob, !.prior = {}]
      BY <1>5
    <2>3. r \in Invocation /\ r.pair = script[s].pair + 1 /\ r.pc = "lookup"
      <3>1. script[s].pair + 1 \in Pairs /\ 0 \in 0..MaxJobs
        BY <1>3, <2>1, MatrixConstants DEF Pairs
      <3> QED
        BY <1>1, <2>2, <3>1 DEF Invocation, NoJob
    <2> HIDE DEF r
    <2>4. /\ MatrixTypeOK' /\ script'[s] = r /\ launcher'[s] = b
          /\ \A t \in Scripts \ {s} : script'[t] = script[t] /\ launcher'[t] = launcher[t]
      BY <1>1, <1>2, <2>3, RecordMoves DEF MatrixTypeOK
    <2>5. \A p \in Behind(s)' : p \in Behind(s) \/ p = script[s].pair
      BY <1>3, <2>3, <2>4 DEF Behind, At
    <2>6. ScriptPart(s)'
      BY <1>1, <2>1, <2>3, <2>4, <2>5 DEF ScriptPart
    <2>7. LauncherPart(s)'
      BY <2>4 DEF LauncherPart, MatrixInv
    <2> QED
      BY <2>4, <2>6, <2>7, OneScriptMoves, NoJobMoves
  <1> QED
    BY <1>4, <1>5

\* What becomes of the launcher of an invocation that waits for it no longer.
LEMMA LauncherIsStopped ==
  ASSUME MatrixTypeOK, NEW s \in Scripts, LauncherEnds(s)
  PROVE  \E b \in Background : /\ launcher' = [launcher EXCEPT ![s] = b]
                               /\ b.job = NoJob /\ b.pc = "ended" /\ b.pair = launcher[s].pair
  <1> DEFINE b == [launcher[s] EXCEPT !.pc = "ended", !.job = NoJob]
  <1>1. launcher[s] \in Background /\ 0 \in 0..MaxJobs
    BY MatrixConstants DEF MatrixTypeOK
  <1>2. b \in Background /\ b.job = NoJob /\ b.pc = "ended" /\ b.pair = launcher[s].pair
    BY <1>1 DEF Background, NoJob
  <1>3. launcher' = [launcher EXCEPT ![s] = b]
    BY DEF LauncherEnds
  <1> QED
    BY <1>2, <1>3

\* A launcher nobody touches.
LEMMA LauncherStays ==
  ASSUME MatrixInv, NEW s \in Scripts, UNCHANGED launcher
  PROVE  \E b \in Background : /\ launcher' = [launcher EXCEPT ![s] = b] /\ b = launcher[s]
                               /\ b.pc \in {"await", "poll"} => b.job # NoJob
  <1>1. launcher \in [Scripts -> Background] /\ LauncherPart(s)
    BY DEF MatrixInv, MatrixTypeOK
  <1>2. launcher[s] \in Background /\ launcher' = [launcher EXCEPT ![s] = launcher[s]]
    BY <1>1
  <1> QED
    BY <1>1, <1>2 DEF LauncherPart

\* Steps that change nothing but the invocation.
LEMMA InvocationOnly ==
  ASSUME MatrixInv, NEW s \in Scripts, NEW r \in Invocation,
         script' = [script EXCEPT ![s] = r], UNCHANGED <<launcher, jobs, label>>,
         r.pair = script[s].pair, script[s].pc # "done", r.pc \notin {"done", "watch"},
         r.pc = "poll" => r.job \in DOMAIN jobs /\ jobs[r.job].pair = r.pair
  PROVE  MatrixInv'
  <1>1. PICK b \in Background : /\ launcher' = [launcher EXCEPT ![s] = b] /\ b = launcher[s]
                                /\ b.pc \in {"await", "poll"} => b.job # NoJob
    BY LauncherStays
  <1> QED
    BY <1>1, InvocationGoesOn

\* Waiting on a job of its pair.
LEMMA WaitMoves ==
  ASSUME MatrixInv, NEW s \in Scripts, NEW j \in DOMAIN jobs, WaitOn(s, j),
         jobs[j].pair = script[s].pair, script[s].pc # "done",
         UNCHANGED <<launcher, jobs, label>>
  PROVE  MatrixInv'
  <1> DEFINE r == [script[s] EXCEPT !.pc = "poll", !.job = j]
  <1>1. script[s] \in Invocation /\ j \in 1..MaxJobs /\ j \in 0..MaxJobs
    BY JobType, MatrixConstants DEF MatrixInv, MatrixTypeOK
  <1>2. r \in Invocation /\ r.pair = script[s].pair /\ r.pc = "poll" /\ r.job = j
    BY <1>1 DEF Invocation
  <1>3. script' = [script EXCEPT ![s] = r]
    BY DEF WaitOn
  <1> HIDE DEF r
  <1> QED
    BY <1>2, <1>3, InvocationOnly

\* An invocation that goes back to a lookup.
LEMMA GotoMoves ==
  ASSUME MatrixTypeOK, NEW s \in Scripts, NEW where \in {"lookup", "relookup"}, Goto(s, where)
  PROVE  \E r \in Invocation : /\ script' = [script EXCEPT ![s] = r]
                               /\ r.pc = where /\ r.pair = script[s].pair
  <1> DEFINE r == [script[s] EXCEPT !.pc = where]
  <1>1. script[s] \in Invocation
    BY DEF MatrixTypeOK
  <1>2. r \in Invocation /\ r.pc = where /\ r.pair = script[s].pair
    BY <1>1 DEF Invocation
  <1>3. script' = [script EXCEPT ![s] = r]
    BY DEF Goto
  <1> QED
    BY <1>2, <1>3

\* An invocation that stops and leaves everything else alone.
LEMMA StopMoves ==
  ASSUME MatrixInv, NEW s \in Scripts, NEW where \in {"stopped", "dead"}, End(s, where),
         script[s].pc # "done", UNCHANGED <<launcher, jobs, label>>
  PROVE  MatrixInv'
  BY LauncherStays, InvocationStops, NoJobMoves DEF MatrixInv, MatrixTypeOK

\* Every step of an invocation keeps the invariant.
LEMMA ScriptKeeps ==
  ASSUME MatrixInv, NEW s \in Scripts, ScriptStep(s) \/ Begin(s) \/ KillScript(s)
  PROVE  MatrixInv'
  <1>1. /\ MatrixTypeOK /\ ScriptPart(s) /\ LauncherPart(s) /\ script[s] \in Invocation
        /\ jobs \in Seq(Request) /\ Len(jobs) <= MaxJobs
    BY DEF MatrixInv, MatrixTypeOK
  <1>2. CASE Begin(s)
    <2> DEFINE r == [script[s] EXCEPT !.pc = "lookup"]
    <2>1. r \in Invocation /\ r.pair = script[s].pair /\ r.pc = "lookup"
      BY <1>1 DEF Invocation
    <2>2. /\ script' = [script EXCEPT ![s] = r] /\ script[s].pc = "off"
          /\ UNCHANGED <<launcher, jobs, label>>
      BY <1>2 DEF Begin, At
    <2> HIDE DEF r
    <2> QED
      BY <2>1, <2>2, InvocationOnly
  <1>3. CASE KillScript(s)
    BY <1>3, StopMoves DEF KillScript, Ended
  <1>4. CASE LookupFails(s)
    BY <1>4, StopMoves DEF LookupFails
  <1>5. CASE SkipPair(s)
    <2>1. \E j \in DOMAIN jobs : jobs[j].state = "succeeded" /\ jobs[j].pair = script[s].pair
      BY <1>5 DEF SkipPair, InState, JobsOf
    <2>2. NextPair(s) /\ script[s].pc # "done" /\ UNCHANGED <<launcher, jobs, label>>
      BY <1>5 DEF SkipPair, At
    <2> QED
      BY <2>1, <2>2, LauncherStays, PairIsDone
  <1>6. CASE Attempt(s)
    <2>1. script[s].pc = "lookup" /\ UNCHANGED <<jobs, label>>
      BY <1>6 DEF Attempt, At
    <2>2. ASSUME NEW j \in InState(script[s].pair, Active), WaitOn(s, j), UNCHANGED launcher
          PROVE  MatrixInv'
      <3>1. j \in DOMAIN jobs /\ jobs[j].pair = script[s].pair
        BY DEF InState, JobsOf
      <3> QED
        BY <2>1, <2>2, <3>1, WaitMoves
    <2>3. CASE End(s, "stopped") /\ UNCHANGED launcher
      BY <2>1, <2>3, StopMoves
    <2>4. CASE /\ script' = [script EXCEPT ![s] = [@ EXCEPT !.pc = "watch",
                                                            !.attempt = script[s].attempt + 1,
                                                            !.prior = JobsOf(script[s].pair)]]
               /\ launcher' = [launcher EXCEPT ![s] = [pc |-> "check", pair |-> script[s].pair,
                                                       job |-> NoJob]]
      <3> DEFINE r == [script[s] EXCEPT !.pc = "watch", !.attempt = script[s].attempt + 1,
                                        !.prior = JobsOf(script[s].pair)]
                 b == [pc |-> "check", pair |-> script[s].pair, job |-> NoJob]
      <3>1. JobsOf(script[s].pair) \subseteq 1..MaxJobs
        BY <1>1, JobType DEF JobsOf
      <3>2. script[s].attempt + 1 \in Nat /\ script[s].pair \in Pairs /\ 0 \in 0..MaxJobs
        BY <1>1, MatrixConstants DEF Invocation
      <3>3. r \in Invocation /\ r.pair = script[s].pair /\ r.pc = "watch"
        BY <1>1, <3>1, <3>2 DEF Invocation
      <3>4. b \in Background /\ b.pair = script[s].pair /\ b.pc = "check" /\ b.job = NoJob
        BY <3>2 DEF Background, NoJob
      <3>5. script' = [script EXCEPT ![s] = r] /\ launcher' = [launcher EXCEPT ![s] = b]
        BY <2>4
      <3> HIDE DEF r, b
      <3> QED
        BY <2>1, <3>3, <3>4, <3>5, InvocationGoesOn
    <2> QED
      BY <1>6, <2>2, <2>3, <2>4 DEF Attempt
  <1>7. CASE SeeJob(s)
    <2>1. /\ script[s].pc = "watch" /\ launcher[s].job # NoJob /\ WaitOn(s, launcher[s].job)
          /\ UNCHANGED <<launcher, jobs, label>>
      BY <1>1, <1>7 DEF SeeJob, At, LauncherPart
    <2>2. launcher[s].job \in DOMAIN jobs /\ jobs[launcher[s].job].pair = script[s].pair
      BY <1>1, <2>1 DEF ScriptPart, LauncherPart
    <2> QED
      BY <2>1, <2>2, WaitMoves
  <1>8. CASE GiveUpLauncher(s)
    <2>1. /\ script[s].pc = "watch" /\ LauncherEnds(s) /\ Goto(s, "relookup")
          /\ UNCHANGED <<jobs, label>>
      BY <1>8 DEF GiveUpLauncher, At
    <2>2. PICK b \in Background : /\ launcher' = [launcher EXCEPT ![s] = b]
                                  /\ b.job = NoJob /\ b.pc = "ended"
      BY <1>1, <2>1, LauncherIsStopped
    <2>3. PICK r \in Invocation : /\ script' = [script EXCEPT ![s] = r]
                                  /\ r.pc = "relookup" /\ r.pair = script[s].pair
      BY <1>1, <2>1, GotoMoves
    <2> QED
      BY <2>1, <2>2, <2>3, InvocationGoesOn
  <1>9. CASE Relookup(s)
    <2>1. script[s].pc = "relookup" /\ UNCHANGED <<launcher, jobs, label>>
      BY <1>9 DEF Relookup, At
    <2>2. ASSUME NEW j \in NewJobs(s), WaitOn(s, j)
          PROVE  MatrixInv'
      <3>1. j \in DOMAIN jobs /\ jobs[j].pair = script[s].pair
        BY DEF NewJobs, JobsOf
      <3> QED
        BY <2>1, <2>2, <3>1, WaitMoves
    <2>3. CASE Goto(s, "lookup")
      BY <1>1, <2>1, <2>3, GotoMoves, InvocationOnly
    <2>4. CASE End(s, "stopped")
      BY <2>1, <2>4, StopMoves
    <2> QED
      BY <1>9, <2>2, <2>3, <2>4 DEF Relookup
  <1>10. CASE PollTerminal(s)
    <2>1. script[s].pc = "poll" /\ LauncherEnds(s) /\ UNCHANGED <<jobs, label>>
      BY <1>10 DEF PollTerminal, At
    <2>2. PICK b \in Background : /\ launcher' = [launcher EXCEPT ![s] = b]
                                  /\ b.job = NoJob /\ b.pc = "ended"
      BY <1>1, <2>1, LauncherIsStopped
    <2>3. script[s].job \in DOMAIN jobs /\ jobs[script[s].job].pair = script[s].pair
      BY <1>1, <2>1 DEF ScriptPart
    <2>4. CASE jobs[script[s].job].state = "succeeded"
      <3>1. NextPair(s)
        BY <1>10, <2>4 DEF PollTerminal
      <3> QED
        BY <2>1, <2>2, <2>3, <2>4, <3>1, PairIsDone
    <2>5. CASE jobs[script[s].job].state # "succeeded"
      <3>1. End(s, "stopped")
        BY <1>10, <2>5 DEF PollTerminal
      <3> QED
        BY <1>1, <2>1, <2>2, <3>1, InvocationStops, NoJobMoves
    <2> QED
      BY <2>4, <2>5
  <1>11. CASE PollOverdue(s)
    <2>1. /\ script[s].pc = "poll" /\ LauncherEnds(s) /\ End(s, "stopped") /\ UNCHANGED label
          /\ jobs' = [jobs EXCEPT ![script[s].job].queue = "cancel"]
      BY <1>11 DEF PollOverdue, At
    <2>2. PICK b \in Background : /\ launcher' = [launcher EXCEPT ![s] = b]
                                  /\ b.job = NoJob /\ b.pc = "ended"
      BY <1>1, <2>1, LauncherIsStopped
    <2>3. script[s].job \in DOMAIN jobs
      BY <1>1, <2>1 DEF ScriptPart
    <2>4. /\ jobs' \in Seq(Request) /\ Len(jobs') <= MaxJobs
          /\ JobsGrow /\ LabelPart' /\ \A i \in DOMAIN jobs' : JobPart(i)'
      BY <2>1, <2>3, QueueMoves
    <2> QED
      BY <2>1, <2>2, <2>4, InvocationStops
  <1>12. CASE PollGivesUp(s)
    <2>1. /\ script[s].pc = "poll" /\ LauncherEnds(s) /\ End(s, "stopped")
          /\ UNCHANGED <<jobs, label>>
      BY <1>12 DEF PollGivesUp, At
    <2>2. PICK b \in Background : /\ launcher' = [launcher EXCEPT ![s] = b]
                                  /\ b.job = NoJob /\ b.pc = "ended"
      BY <1>1, <2>1, LauncherIsStopped
    <2> QED
      BY <1>1, <2>1, <2>2, InvocationStops, NoJobMoves
  <1> QED
    BY <1>2, <1>3, <1>4, <1>5, <1>6, <1>7, <1>8, <1>9, <1>10, <1>11, <1>12 DEF ScriptStep

-----------------------------------------------------------------------------
(* The steps of a launcher.                                                *)

\* A launcher goes on with its pair and its job, or forgets the job.
LEMMA LauncherMoves ==
  ASSUME MatrixInv, NEW s \in Scripts, NEW b \in Background,
         launcher' = [launcher EXCEPT ![s] = b], UNCHANGED <<script, label>>,
         jobs' \in Seq(Request), Len(jobs') <= MaxJobs,
         JobsGrow, LabelPart', \A j \in DOMAIN jobs' : JobPart(j)',
         b.pair = launcher[s].pair, b.pc \in {"await", "poll"} => b.job # NoJob,
         b.job # NoJob => b.job \in DOMAIN jobs' /\ jobs'[b.job].pair = b.pair
  PROVE  MatrixInv'
  <1>1. MatrixTypeOK /\ ScriptPart(s) /\ script[s] \in Invocation
    BY DEF MatrixInv, MatrixTypeOK
  <1>2. script' = [script EXCEPT ![s] = script[s]]
    BY <1>1 DEF MatrixTypeOK
  <1>3. /\ MatrixTypeOK' /\ script'[s] = script[s] /\ launcher'[s] = b
        /\ \A t \in Scripts \ {s} : script'[t] = script[t] /\ launcher'[t] = launcher[t]
    BY <1>1, <1>2, RecordMoves DEF MatrixTypeOK
  <1>4. Behind(s)' = Behind(s)
    BY <1>3 DEF Behind, At
  <1>5. ScriptPart(s)'
    BY <1>1, <1>3, <1>4 DEF ScriptPart, JobsGrow
  <1>6. LauncherPart(s)'
    BY <1>3 DEF LauncherPart
  <1> QED
    BY <1>3, <1>5, <1>6, OneScriptMoves

\* Every step of a launcher keeps the invariant.
LEMMA LauncherKeeps ==
  ASSUME MatrixInv, NEW s \in Scripts, LauncherStep(s)
  PROVE  MatrixInv'
  <1>1. /\ MatrixTypeOK /\ LauncherPart(s) /\ launcher[s] \in Background
        /\ jobs \in Seq(Request) /\ Len(jobs) <= MaxJobs
    BY DEF MatrixInv, MatrixTypeOK
  <1>2. CASE LauncherCheck(s)
    <2> DEFINE objects == label[launcher[s].pair]
               b == [launcher[s] EXCEPT !.pc =
                       IF {objects["evidence"], objects["ckpt"]} = {NoJob}
                       THEN "create" ELSE "ended"]
    <2>1. b \in Background /\ b.pair = launcher[s].pair /\ b.job = launcher[s].job
          /\ b.pc \in {"create", "ended"}
      BY <1>1 DEF Background
    <2>2. launcher' = [launcher EXCEPT ![s] = b] /\ UNCHANGED <<script, jobs, label>>
      BY <1>2 DEF LauncherCheck
    <2> HIDE DEF b
    <2> QED
      BY <1>1, <2>1, <2>2, LauncherMoves, NoJobMoves DEF LauncherPart
  <1>3. CASE LauncherCreate(s)
    <2> DEFINE q == NewRequest(launcher[s].pair)
               b == [launcher[s] EXCEPT !.pc = "await", !.job = Len(jobs) + 1]
    <2>1. /\ Len(jobs) < MaxJobs /\ jobs' = Append(jobs, q)
          /\ launcher' = [launcher EXCEPT ![s] = b] /\ UNCHANGED <<script, label>>
      BY <1>3 DEF LauncherCreate
    <2>2. /\ q \in Request /\ q.pair = launcher[s].pair /\ q.phase = "fit"
          /\ q.state = "flight"
      BY <1>1 DEF NewRequest, Request, Background
    <2>3. Len(jobs) \in Nat /\ Len(jobs) + 1 \in 0..MaxJobs
      BY <1>1, <2>1, MatrixConstants
    <2>4. /\ b \in Background /\ b.pair = launcher[s].pair /\ b.pc = "await"
          /\ b.job = Len(jobs) + 1
      BY <1>1, <2>3 DEF Background
    <2> HIDE DEF q, b
    <2>5. /\ jobs' \in Seq(Request) /\ Len(jobs') = Len(jobs) + 1
          /\ DOMAIN jobs = 1..Len(jobs) /\ DOMAIN jobs' = 1..(Len(jobs) + 1)
          /\ \A j \in DOMAIN jobs : jobs'[j] = jobs[j]
          /\ jobs'[Len(jobs) + 1] = q
      BY <1>1, <2>1, <2>2
    <2>6. JobsGrow
      BY <2>3, <2>5 DEF JobsGrow
    <2>7. ASSUME NEW j \in DOMAIN jobs'
          PROVE  JobPart(j)'
      <3>1. CASE j \in DOMAIN jobs
        BY <2>1, <2>5, <3>1 DEF JobPart, MatrixInv
      <3>2. CASE j \notin DOMAIN jobs
        <4>1. j = Len(jobs) + 1
          BY <2>3, <2>5, <3>2
        <4> QED
          BY <2>2, <2>5, <4>1 DEF JobPart
      <3> QED
        BY <3>1, <3>2
    <2>8. LabelPart' /\ Len(jobs') <= MaxJobs /\ b.job # NoJob /\ b.job \in DOMAIN jobs'
          /\ jobs'[b.job].pair = b.pair
      BY <2>1, <2>2, <2>3, <2>4, <2>5 DEF LabelPart, MatrixInv, NoJob
    <2> QED
      BY <2>1, <2>4, <2>5, <2>6, <2>7, <2>8, LauncherMoves
  <1>4. CASE LauncherSubmitted(s)
    <2> DEFINE b == [launcher[s] EXCEPT !.pc = "poll"]
    <2>1. /\ launcher[s].pc = "await" /\ launcher' = [launcher EXCEPT ![s] = b]
          /\ UNCHANGED <<script, jobs, label>>
      BY <1>4 DEF LauncherSubmitted
    <2>2. b \in Background /\ b.pair = launcher[s].pair /\ b.job = launcher[s].job
      BY <1>1 DEF Background
    <2> HIDE DEF b
    <2> QED
      BY <1>1, <2>1, <2>2, LauncherMoves, NoJobMoves DEF LauncherPart
  <1>5. CASE LauncherFails(s)
    <2> DEFINE j == IF launcher[s].pc = "poll" THEN launcher[s].job ELSE NoJob
               b == [launcher[s] EXCEPT !.pc = "ended", !.job = j]
    <2>1. launcher' = [launcher EXCEPT ![s] = b] /\ UNCHANGED <<script, jobs, label>>
      BY <1>5 DEF LauncherFails
    <2>2. j \in 0..MaxJobs /\ (j = NoJob \/ j = launcher[s].job)
      BY <1>1, MatrixConstants DEF Background, NoJob
    <2> HIDE DEF j
    <2>3. b \in Background /\ b.pair = launcher[s].pair /\ b.job = j /\ b.pc = "ended"
      BY <1>1, <2>2 DEF Background
    <2> HIDE DEF b
    <2> QED
      BY <1>1, <2>1, <2>2, <2>3, LauncherMoves, NoJobMoves DEF LauncherPart
  <1>6. CASE LauncherPoll(s)
    <2>1. launcher[s].pc = "poll" /\ UNCHANGED <<script, label>>
      BY <1>6 DEF LauncherPoll
    <2>2. launcher[s].job \in DOMAIN jobs /\ launcher[s].job # NoJob
          /\ jobs[launcher[s].job].pair = launcher[s].pair
      BY <1>1, <2>1 DEF LauncherPart
    <2>3. CASE LauncherEnds(s) /\ UNCHANGED jobs
      <3>1. PICK b \in Background : /\ launcher' = [launcher EXCEPT ![s] = b]
                                    /\ b.job = NoJob /\ b.pc = "ended"
                                    /\ b.pair = launcher[s].pair
        BY <1>1, <2>3, LauncherIsStopped
      <3> QED
        BY <1>1, <2>1, <2>3, <3>1, LauncherMoves, NoJobMoves
    <2>4. CASE jobs' = [jobs EXCEPT ![launcher[s].job].queue = "cancel"] /\ UNCHANGED launcher
      <3>1. /\ jobs' \in Seq(Request) /\ Len(jobs') <= MaxJobs
            /\ JobsGrow /\ LabelPart' /\ \A i \in DOMAIN jobs' : JobPart(i)'
        BY <2>1, <2>2, <2>4, QueueMoves
      <3>2. launcher' = [launcher EXCEPT ![s] = launcher[s]]
        BY <1>1, <2>4 DEF MatrixTypeOK
      <3> QED
        BY <1>1, <2>1, <2>2, <3>1, <3>2, LauncherMoves DEF JobsGrow
    <2> QED
      BY <1>6, <2>3, <2>4 DEF LauncherPoll
  <1> QED
    BY <1>2, <1>3, <1>4, <1>5, <1>6 DEF LauncherStep

-----------------------------------------------------------------------------
(* The steps of Vertex and of the container.                               *)

\* A job changes and uploads nothing.
LEMMA JobOnly ==
  ASSUME MatrixInv, UNCHANGED <<script, launcher, label>>,
         NEW j \in DOMAIN jobs, NEW r \in Request,
         jobs' = [jobs EXCEPT ![j] = r], r.pair = jobs[j].pair,
         jobs[j].state # "succeeded", r.state # "succeeded",
         r.phase \in {"fit", "curve", jobs[j].phase}
  PROVE  MatrixInv'
  <1>1. jobs'[j] = r /\ JobPart(j)
    BY DEF MatrixInv, MatrixTypeOK
  <1>2. JobPart(j)' /\ LabelPart' /\ LabelGrows
    BY <1>1 DEF JobPart, LabelPart, MatrixInv, LabelGrows
  <1>3. label' \in [Pairs -> [Objects -> 0..MaxJobs]]
    BY DEF MatrixInv, MatrixTypeOK
  <1> QED
    BY <1>2, <1>3, OneJobMoves

\* The record of a job that is over.
LEMMA ClosedType ==
  ASSUME MatrixTypeOK, NEW j \in DOMAIN jobs, NEW final \in Terminal
  PROVE  /\ Closed(j, final) \in Request /\ Closed(j, final).pair = jobs[j].pair
         /\ Closed(j, final).state = final /\ Closed(j, final).phase = "fit"
  <1>1. jobs[j] \in Request
    BY JobType
  <1> QED
    BY <1>1 DEF Closed, Request, Terminal

\* An upload in its place: the curve first, the checkpoint next, the evidence last.
LEMMA UploadMoves ==
  ASSUME MatrixInv, UNCHANGED <<script, launcher>>,
         NEW j \in DOMAIN jobs, NEW object \in Objects, NEW next \in Request,
         CreateOnly(j, object, next), next.pair = jobs[j].pair, jobs[j].state = "running",
         object # "curve" => label[jobs[j].pair]["curve"] = j,
         object = "evidence" => label[jobs[j].pair]["ckpt"] = j,
         next.phase = "ckpt" => object = "curve",
         next.phase = "evidence" => object = "ckpt",
         next.state = "succeeded" => object = "evidence"
  PROVE  MatrixInv'
  <1> DEFINE p == jobs[j].pair
  <1>1. /\ MatrixTypeOK /\ jobs \in Seq(Request) /\ label \in [Pairs -> [Objects -> 0..MaxJobs]]
        /\ p \in Pairs /\ j \in 1..MaxJobs /\ j # NoJob /\ j \in 0..MaxJobs
    BY JobType, MatrixConstants DEF MatrixInv, MatrixTypeOK
  <1>2. CASE /\ label[p][object] = NoJob
             /\ label' = [label EXCEPT ![p][object] = j]
             /\ jobs' = [jobs EXCEPT ![j] = next]
    <2>1. /\ label' \in [Pairs -> [Objects -> 0..MaxJobs]]
          /\ label'[p][object] = j
          /\ \A q \in Pairs : \A o \in Objects :
               q # p \/ o # object => label'[q][o] = label[q][o]
      BY <1>1, <1>2
    <2>2. LabelGrows
      BY <1>1, <1>2, <2>1 DEF LabelGrows
    <2>3. jobs'[j] = next
      BY <1>1, <1>2
    <2>4. JobPart(j)'
      BY <1>1, <2>1, <2>3 DEF JobPart, Objects
    <2>5. LabelPart'
      <3> SUFFICES ASSUME NEW q \in Pairs, NEW o \in Objects
                   PROVE  label'[q][o] \in {NoJob, label'[q]["curve"]}
        BY DEF LabelPart
      <3>1. label[q][o] \in {NoJob, label[q]["curve"]}
        BY DEF MatrixInv, LabelPart
      <3>2. CASE q # p
        BY <2>1, <3>1, <3>2 DEF Objects
      <3>3. CASE q = p /\ object = "curve"
        BY <1>2, <2>1, <3>1, <3>3 DEF Objects
      <3>4. CASE q = p /\ object # "curve"
        BY <2>1, <3>1, <3>4 DEF Objects
      <3> QED
        BY <3>2, <3>3, <3>4
    <2> QED
      BY <1>2, <2>1, <2>2, <2>4, <2>5, OneJobMoves
  <1>3. CASE jobs' = [jobs EXCEPT ![j] = Closed(j, "failed")] /\ UNCHANGED label
    BY <1>1, <1>3, ClosedType, JobOnly DEF Terminal
  <1> QED
    BY <1>2, <1>3 DEF CreateOnly

\* Every step of Vertex and of the container keeps the invariant.
LEMMA ServiceKeeps ==
  ASSUME MatrixInv, NEW j \in DOMAIN jobs, ServiceStep(j)
  PROVE  MatrixInv'
  <1>1. /\ MatrixTypeOK /\ jobs[j] \in Request /\ JobPart(j)
        /\ \A final \in Terminal :
             /\ Closed(j, final) \in Request /\ Closed(j, final).pair = jobs[j].pair
             /\ Closed(j, final).state = final /\ Closed(j, final).phase = "fit"
    BY JobType, ClosedType DEF MatrixInv
  <1>2. CASE RequestLands(j)
    <2> DEFINE r == [jobs[j] EXCEPT !.state = "queued"]
    <2>1. r \in Request /\ r.pair = jobs[j].pair /\ r.phase = jobs[j].phase /\ r.state = "queued"
      BY <1>1 DEF Request, Active
    <2>2. jobs' = [jobs EXCEPT ![j] = r] /\ jobs[j].state = "flight"
          /\ UNCHANGED <<script, launcher, label>>
      BY <1>2 DEF RequestLands
    <2> HIDE DEF r
    <2> QED
      BY <2>1, <2>2, JobOnly
  <1>3. CASE QueueDeadline(j)
    <2> DEFINE r == [jobs[j] EXCEPT !.queue = "late"]
    <2>1. r \in Request /\ r.pair = jobs[j].pair /\ r.phase = jobs[j].phase
          /\ r.state = jobs[j].state
      BY <1>1 DEF Request
    <2>2. jobs' = [jobs EXCEPT ![j] = r] /\ jobs[j].state = "queued"
          /\ UNCHANGED <<script, launcher, label>>
      BY <1>3 DEF QueueDeadline
    <2> HIDE DEF r
    <2> QED
      BY <2>1, <2>2, JobOnly
  <1>4. CASE JobStarts(j)
    <2> DEFINE r == [jobs[j] EXCEPT !.state = "running"]
    <2>1. r \in Request /\ r.pair = jobs[j].pair /\ r.phase = jobs[j].phase
          /\ r.state = "running"
      BY <1>1 DEF Request, Active
    <2>2. jobs' = [jobs EXCEPT ![j] = r] /\ jobs[j].state = "queued"
          /\ UNCHANGED <<script, launcher, label>>
      BY <1>4 DEF JobStarts
    <2> HIDE DEF r
    <2> QED
      BY <2>1, <2>2, JobOnly
  <1>5. CASE CancelLands(j)
    <2>1. jobs' = [jobs EXCEPT ![j] = Closed(j, "cancelled")] /\ jobs[j].state # "succeeded"
          /\ UNCHANGED <<script, launcher, label>> /\ "cancelled" \in Terminal
      BY <1>5 DEF CancelLands, Active, Terminal
    <2> QED
      BY <1>1, <2>1, JobOnly
  <1>6. CASE Train(j)
    <2> DEFINE r == [jobs[j] EXCEPT !.phase = "curve"]
    <2>1. r \in Request /\ r.pair = jobs[j].pair /\ r.phase = "curve"
          /\ r.state = jobs[j].state
      BY <1>1 DEF Request
    <2>2. jobs' = [jobs EXCEPT ![j] = r] /\ jobs[j].state = "running"
          /\ UNCHANGED <<script, launcher, label>>
      BY <1>6 DEF Train, InPhase
    <2> HIDE DEF r
    <2> QED
      BY <2>1, <2>2, JobOnly
  <1>7. CASE TrainFails(j)
    <2>1. /\ CreateOnly(j, "curve", Closed(j, "failed")) /\ jobs[j].state = "running"
          /\ UNCHANGED <<script, launcher>> /\ "failed" \in Terminal /\ "curve" \in Objects
      BY <1>7 DEF TrainFails, InPhase, Terminal, Objects
    <2> QED
      BY <1>1, <2>1, UploadMoves
  <1>8. CASE JobDies(j)
    <2>1. jobs' = [jobs EXCEPT ![j] = Closed(j, "failed")] /\ jobs[j].state # "succeeded"
          /\ UNCHANGED <<script, launcher, label>> /\ "failed" \in Terminal
      BY <1>8 DEF JobDies, Terminal
    <2> QED
      BY <1>1, <2>1, JobOnly
  <1>9. CASE UploadCurve(j)
    <2> DEFINE r == [jobs[j] EXCEPT !.phase = "ckpt"]
    <2>1. r \in Request /\ r.pair = jobs[j].pair /\ r.phase = "ckpt"
          /\ r.state = jobs[j].state
      BY <1>1 DEF Request
    <2>2. /\ CreateOnly(j, "curve", r) /\ jobs[j].state = "running"
          /\ UNCHANGED <<script, launcher>> /\ "curve" \in Objects
      BY <1>9 DEF UploadCurve, InPhase, Objects
    <2> HIDE DEF r
    <2> QED
      BY <2>1, <2>2, UploadMoves
  <1>10. CASE UploadCheckpoint(j)
    <2> DEFINE r == [jobs[j] EXCEPT !.phase = "evidence"]
    <2>1. r \in Request /\ r.pair = jobs[j].pair /\ r.phase = "evidence"
          /\ r.state = jobs[j].state
      BY <1>1 DEF Request
    <2>2. /\ CreateOnly(j, "ckpt", r) /\ jobs[j].state = "running" /\ jobs[j].phase = "ckpt"
          /\ UNCHANGED <<script, launcher>> /\ "ckpt" \in Objects
      BY <1>10 DEF UploadCheckpoint, InPhase, Objects
    <2>3. label[jobs[j].pair]["curve"] = j
      BY <1>1, <2>2 DEF JobPart
    <2> HIDE DEF r
    <2> QED
      BY <2>1, <2>2, <2>3, UploadMoves
  <1>11. CASE UploadEvidence(j)
    <2>1. /\ jobs[j].state = "running" /\ jobs[j].phase = "evidence"
          /\ UNCHANGED <<script, launcher>> /\ "evidence" \in Objects
          /\ {"succeeded", "failed"} \subseteq Terminal
      BY <1>11 DEF UploadEvidence, InPhase, Objects, Terminal
    <2>2. PICK final \in {"succeeded", "failed"} : CreateOnly(j, "evidence", Closed(j, final))
      BY <1>11 DEF UploadEvidence
    <2>3. label[jobs[j].pair]["curve"] = j /\ label[jobs[j].pair]["ckpt"] = j
      BY <1>1, <2>1 DEF JobPart
    <2> QED
      BY <1>1, <2>1, <2>2, <2>3, UploadMoves
  <1> QED
    BY <1>2, <1>3, <1>4, <1>5, <1>6, <1>7, <1>8, <1>9, <1>10, <1>11 DEF ServiceStep

-----------------------------------------------------------------------------
\* The invariant holds when nothing has been submitted.
LEMMA MatrixStarts ==
  ASSUME MatrixInit
  PROVE  MatrixInv
  <1>1. /\ 0 \in 0..MaxJobs /\ 1 \in Pairs /\ NumPairs \in Nat /\ MaxJobs \in Nat
        /\ \A s \in Scripts :
             /\ Invocations[s].from \in Pairs /\ Invocations[s].to \in Pairs
             /\ Invocations[s].from <= Invocations[s].to
    BY MatrixConstants DEF Pairs
  <1>2. script \in [Scripts -> Invocation]
    BY <1>1 DEF MatrixInit, Invocation, NoJob
  <1>3. launcher \in [Scripts -> Background] /\ jobs = <<>>
    BY <1>1 DEF MatrixInit, Background, NoJob
  <1>4. label \in [Pairs -> [Objects -> 0..MaxJobs]]
    BY <1>1 DEF MatrixInit, NoJob
  <1>5. MatrixTypeOK
    BY <1>1, <1>2, <1>3, <1>4 DEF MatrixTypeOK
  <1>6. ASSUME NEW s \in Scripts
        PROVE  ScriptPart(s) /\ LauncherPart(s)
    <2>1. /\ script[s].pc = "off" /\ script[s].pair = Invocations[s].from
          /\ launcher[s].pc = "off" /\ launcher[s].job = NoJob
      BY DEF MatrixInit
    <2>2. Behind(s) = {}
      BY <1>1, <2>1 DEF Behind, At, Pairs
    <2>3. ScriptPart(s)
      BY <1>1, <2>1, <2>2 DEF ScriptPart, Pairs
    <2> QED
      BY <2>1, <2>3 DEF LauncherPart
  <1>7. LabelPart
    BY DEF MatrixInit, LabelPart, Objects
  <1>8. \A j \in DOMAIN jobs : JobPart(j)
    BY <1>3
  <1> QED
    BY <1>5, <1>6, <1>7, <1>8 DEF MatrixInv

\* Every step keeps the invariant.
LEMMA MatrixKeeps ==
  ASSUME MatrixInv, [MatrixNext]_matrixVars
  PROVE  MatrixInv'
  <1>1. CASE UNCHANGED matrixVars
    <2>1. UNCHANGED <<script, launcher, jobs, label>>
      BY <1>1 DEF matrixVars
    <2>2. MatrixTypeOK'
      BY <2>1 DEF MatrixInv, MatrixTypeOK
    <2>3. JobsGrow /\ LabelPart' /\ \A j \in DOMAIN jobs' : JobPart(j)'
      BY <2>1, NoJobMoves
    <2>4. \A s \in Scripts : ScriptPart(s)' /\ LauncherPart(s)'
      BY <2>1 DEF MatrixInv, ScriptPart, LauncherPart, Behind, At
    <2> QED
      BY <2>2, <2>3, <2>4 DEF MatrixInv, Scripts
  <1>2. CASE MatrixNext
    BY <1>2, ScriptKeeps, LauncherKeeps, ServiceKeeps DEF MatrixNext
  <1> QED
    BY <1>1, <1>2

\* What the three parts and their types say together always holds
\* (launch_v6_matrix.sh, launch_vertex_modeling.py, vertex_evidence.py).
THEOREM MatrixInvariant == MatrixSpec => []MatrixInv
  BY MatrixStarts, MatrixKeeps, PTL DEF MatrixSpec

\* Scripts, launchers, jobs and labels have the types of MatrixTypeOK.
THEOREM MatrixTypeCorrect == MatrixSpec => []MatrixTypeOK
  <1>1. MatrixInv => MatrixTypeOK
    BY DEF MatrixInv
  <1> QED
    BY <1>1, MatrixInvariant, PTL

\* However many jobs are created for a pair, whatever the number of pairs, invocations
\* and jobs, the objects under its label come from one (vertex_evidence.py:497-535).
THEOREM LabelsAreOfOneJob == MatrixSpec => []LabelBelongsToOneJob
  <1>1. ASSUME MatrixInv
        PROVE  LabelBelongsToOneJob
    <2> SUFFICES ASSUME NEW p \in Pairs
                 PROVE  Cardinality({label[p][o] : o \in Objects} \ {NoJob}) <= 1
      BY DEF LabelBelongsToOneJob
    <2> DEFINE owner == label[p]["curve"]
               owners == {label[p][o] : o \in Objects} \ {NoJob}
    <2>1. owners \subseteq {owner}
      BY <1>1 DEF MatrixInv, LabelPart
    <2>2. IsFiniteSet({owner}) /\ Cardinality({owner}) = 1
      BY FS_Singleton
    <2> HIDE DEF owners
    <2>3. Cardinality(owners) <= Cardinality({owner})
      BY <2>1, <2>2, FS_Subset
    <2> QED
      BY <2>2, <2>3 DEF owners
  <1> QED
    BY <1>1, MatrixInvariant, PTL

\* Behind an invocation every pair since its first has the whole output of one
\* succeeded job (launch_v6_matrix.sh:53, 255-330).
THEOREM PassedPairsHaveOutput == MatrixSpec => []PassedPairsArePublished
  <1>1. ASSUME MatrixInv
        PROVE  PassedPairsArePublished
    <2> SUFFICES ASSUME NEW s \in Scripts, NEW p \in Behind(s)
                 PROVE  \E j \in InState(p, {"succeeded"}) : \A o \in Objects : label[p][o] = j
      BY DEF PassedPairsArePublished
    <2>1. PICK j \in DOMAIN jobs : jobs[j].state = "succeeded" /\ jobs[j].pair = p
      BY <1>1 DEF MatrixInv, ScriptPart
    <2>2. \A o \in Objects : label[p][o] = j
      BY <1>1, <2>1 DEF MatrixInv, JobPart
    <2>3. j \in InState(p, {"succeeded"})
      BY <2>1 DEF InState, JobsOf, Landed, Terminal
    <2> QED
      BY <2>2, <2>3
  <1> QED
    BY <1>1, MatrixInvariant, PTL

-----------------------------------------------------------------------------
(* The slot ledgers.                                                       *)

Holding(l) ==
  \/ run[l].pc \in {"write", "unlock", "refused"}
  \/ run[l].pc = "read" /\ LocksFirst(l)

\* Launcher l has reserved its slot and has not finished with it.
Owner(l) ==
  \/ run[l].pc \in {"unlock", "create", "poll"}
  \/ run[l].pc \in {"read", "lock", "write"} /\ run[l].op # "reserved"

\* Its last update is written: only the lock file is left to remove.
Settled(l) == run[l].pc = "unlock" /\ run[l].op \notin {"reserved", "submitted"}

\* The state of the row of an owner that has not settled.
Expected(l) ==
  IF \/ run[l].op = "reserved"
     \/ run[l].op \in {"submitted", "create_ambiguous"} /\ run[l].pc \in {"read", "lock", "write"}
  THEN "reserved" ELSE "submitted"


\* What holds of each launcher: the lock, how far its row has come, and that the
\* rows it is about to write back are the rows.
LockPart(l) ==
  /\ Holding(l) => ledgerLock = l
  /\ run[l].op # "validated"
  /\ run[l].pc \in {"off", "create", "refused"} => run[l].op = "reserved"
  /\ run[l].pc = "poll" => run[l].op = "submitted"

RowPart(l) ==
  /\ Owner(l) => /\ run[l].slot \in DOMAIN rows
                 /\ \A i \in 1..(run[l].slot - 1) : rows[i] = "validated"
  /\ Owner(l) /\ ~Settled(l) => Len(rows) = run[l].slot /\ rows[run[l].slot] = Expected(l)

CopyPart(l) ==
  /\ run[l].pc = "write" \/ (run[l].pc = "lock" /\ ~LocksFirst(l)) => run[l].copy = rows
  /\ run[l].pc = "write" /\ run[l].op = "reserved" => NextSlot(rows, run[l].slot)
  /\ run[l].pc \in {"unlock", "create"} /\ run[l].op = "reserved" => created[run[l].slot] = {}

LauncherInv == \A l \in Launchers : LockPart(l) /\ RowPart(l) /\ CopyPart(l)

UniqueInv ==
  \A l, m \in Launchers : Owner(l) /\ Owner(m) /\ run[l].slot = run[m].slot => l = m

CreatedInv ==
  \A k \in AllSlots :
    /\ \A l, m \in created[k] : l = m
    /\ created[k] # {} => k \in DOMAIN rows /\ \A i \in 1..(k - 1) : rows[i] = "validated"

SlotsInv == SlotsTypeOK /\ LauncherInv /\ UniqueInv /\ CreatedInv

-----------------------------------------------------------------------------

USE SlotsAssumption DEF AllSlots, RunAt, RunTo

\* The states of a ledger row, spelled out.
LEMMA RowStatesAre ==
  RowStates = {"reserved", "create_ambiguous", "submitted", "failed", "awaiting_validation",
               "validated"}
  BY DEF RowStates, Progress

Places == {"off", "lock", "read", "refused", "write", "unlock", "create", "poll", "done"}
SlotLauncherState == [pc : Places, slot : AllSlots, op : RowStates, copy : Seq(RowStates)]

\* The assignments the steps make to the state of a launcher keep its type.
LEMMA Assignments ==
  ASSUME NEW s \in SlotLauncherState, NEW p \in Places
  PROVE  /\ [s EXCEPT !.pc = p] \in SlotLauncherState
         /\ \A k \in AllSlots, o \in RowStates :
              [s EXCEPT !.pc = p, !.slot = k, !.op = o] \in SlotLauncherState
         /\ \A o \in RowStates : [s EXCEPT !.op = o, !.pc = p] \in SlotLauncherState
         /\ \A c \in Seq(RowStates) : /\ [s EXCEPT !.pc = p, !.copy = c] \in SlotLauncherState
                                      /\ [s EXCEPT !.copy = c, !.pc = p] \in SlotLauncherState
  BY DEF SlotLauncherState

\* What the EXCEPT expressions of the steps leave in each field of a launcher.
LEMMA Fields ==
  ASSUME NEW s \in SlotLauncherState, NEW p
  PROVE  /\ \A k, o : LET t == [s EXCEPT !.pc = p, !.slot = k, !.op = o]
                      IN  t.pc = p /\ t.slot = k /\ t.op = o
         /\ \A o : LET t == [s EXCEPT !.op = o, !.pc = p]
                   IN  t.pc = p /\ t.op = o /\ t.slot = s.slot
         /\ \A c : LET t == [s EXCEPT !.pc = p, !.copy = c]
                   IN  t.pc = p /\ t.copy = c /\ t.op = s.op /\ t.slot = s.slot
         /\ \A c : LET t == [s EXCEPT !.copy = c, !.pc = p]
                   IN  t.pc = p /\ t.op = s.op /\ t.slot = s.slot
  BY DEF SlotLauncherState

\* A step that assigns a well-typed state to one launcher.
LEMMA Moves ==
  ASSUME SlotsTypeOK, NEW l \in Launchers, NEW s \in SlotLauncherState,
         run' = [run EXCEPT ![l] = s]
  PROVE  /\ run' \in [Launchers -> SlotLauncherState]
         /\ run'[l] = s
         /\ \A m \in Launchers \ {l} : run'[m] = run[m]
  BY DEF SlotsTypeOK, SlotLauncherState, Places

\* No launcher has started and no slot is reserved: the invariant holds.
LEMMA SlotsInitially == SlotsInit => SlotsInv
<1> SUFFICES ASSUME SlotsInit PROVE SlotsInv
  OBVIOUS
<1> USE DEF SlotsInit
<1>1. SlotsTypeOK
  BY RowStatesAre DEF SlotsTypeOK
<1>2. LauncherInv
  BY DEF LauncherInv, LockPart, RowPart, CopyPart, Holding, Owner
<1>3. UniqueInv /\ CreatedInv
  BY DEF UniqueInv, CreatedInv, Owner
<1> QED
  BY <1>1, <1>2, <1>3 DEF SlotsInv

\* A step of one launcher that leaves ledger and jobs alone keeps the invariant if
\* it keeps the launcher's own part and takes the lock from nobody.
LEMMA LocalStep ==
  ASSUME SlotsInv, SlotsTypeOK', NEW l \in Launchers,
         UNCHANGED <<session, rows, created>>,
         \A m \in Launchers \ {l} : run'[m] = run[m],
         \A m \in Launchers \ {l} : Holding(m) => ledgerLock' = m,
         LockPart(l)', RowPart(l)', CopyPart(l)',
         Owner(l)' => Owner(l) /\ run'[l].slot = run[l].slot
  PROVE  SlotsInv'
<1>1. ASSUME NEW m \in Launchers \ {l}
      PROVE  LockPart(m)' /\ RowPart(m)' /\ CopyPart(m)'
  <2>1. LockPart(m) /\ RowPart(m) /\ CopyPart(m)
    BY DEF SlotsInv, LauncherInv
  <2>2. run'[m] = run[m] /\ (Holding(m) => ledgerLock' = m)
    BY <1>1
  <2>3. LockPart(m)'
    BY <2>1, <2>2 DEF LockPart, Holding, LocksFirst
  <2>4. RowPart(m)'
    BY <2>1, <2>2 DEF RowPart, Owner, Settled, Expected
  <2>5. CopyPart(m)'
    BY <2>1, <2>2 DEF CopyPart, LocksFirst, NextSlot
  <2> QED
    BY <2>3, <2>4, <2>5
<1>2. LauncherInv'
  BY <1>1 DEF LauncherInv
<1>3. UniqueInv'
  <2>1. \A m \in Launchers : Owner(m)' => Owner(m) /\ run'[m].slot = run[m].slot
    BY DEF Owner
  <2> QED
    BY <2>1 DEF UniqueInv, SlotsInv
<1>4. CreatedInv'
  BY DEF CreatedInv, SlotsInv
<1> QED
  BY <1>2, <1>3, <1>4 DEF SlotsInv

\* A step of one launcher that leaves the rows alone, keeps its own part, takes the
\* lock from nobody and does not become an owner keeps the invariant.
LEMMA OwnStep ==
  ASSUME SlotsInv, NEW l \in Launchers, NEW s \in SlotLauncherState,
         run' = [run EXCEPT ![l] = s],
         UNCHANGED <<session, rows, created>>, ledgerLock' \in {ledgerLock, l, NoLauncher},
         \A m \in Launchers \ {l} : Holding(m) => ledgerLock' = m,
         LockPart(l)', RowPart(l)', CopyPart(l)',
         Owner(l)' => Owner(l) /\ s.slot = run[l].slot
  PROVE  SlotsInv'
<1>1. /\ run' \in [Launchers -> SlotLauncherState]
      /\ run'[l] = s
      /\ \A m \in Launchers \ {l} : run'[m] = run[m]
  BY Moves DEF SlotsInv
<1>2. SlotsTypeOK'
  BY <1>1 DEF SlotsInv, SlotsTypeOK, SlotLauncherState, Places
<1> QED
  BY <1>1, <1>2, LocalStep

\* What a step that assigns to one launcher may take for granted.
LEMMA Before ==
  ASSUME SlotsInv, NEW l \in Launchers
  PROVE  /\ run[l] \in SlotLauncherState
         /\ LockPart(l) /\ RowPart(l) /\ CopyPart(l)
         /\ \A m \in Launchers : Holding(m) => ledgerLock = m
         /\ <<>> \in Seq(RowStates)
         /\ \A s : run' = [run EXCEPT ![l] = s] => run'[l] = s
  BY DEF SlotsInv, SlotsTypeOK, SlotLauncherState, Places, LauncherInv, LockPart

\* The preflight picks a slot and owns nothing yet.
LEMMA PreflightKeeps ==
  ASSUME SlotsInv, NEW l \in Launchers, Preflight(l)
  PROVE  SlotsInv'
<1>1. PICK k \in Slots :
        run' = [run EXCEPT ![l] = [@ EXCEPT !.pc = IF NextSlot(rows, k) THEN "lock" ELSE "done",
                                            !.slot = k, !.op = "reserved"]]
  BY DEF Preflight
<1> DEFINE p == IF NextSlot(rows, k) THEN "lock" ELSE "done"
           new == [run[l] EXCEPT !.pc = p, !.slot = k, !.op = "reserved"]
<1>2. p \in {"lock", "done"} /\ run' = [run EXCEPT ![l] = new]
  BY <1>1
<1> HIDE DEF p
<1>3. new \in SlotLauncherState
  <2>1. k \in AllSlots
    BY DEF Slots, SlotsInv, SlotsTypeOK
  <2> QED
    BY <1>2, <2>1, RowStatesAre, Before, Assignments DEF Places
<1>4. run'[l].pc = p /\ run'[l].op = "reserved"
  <2>1. run'[l] = new
    BY <1>2, Before
  <2>2. run[l] \in SlotLauncherState
    BY Before
  <2> QED
    BY <2>1, <2>2, Fields
<1>5. LockPart(l)' /\ RowPart(l)' /\ CopyPart(l)' /\ ~Owner(l)'
  BY <1>2, <1>4 DEF LockPart, RowPart, CopyPart, Holding, Owner, LocksFirst
<1> QED
  BY <1>2, <1>3, <1>5, Before, OwnStep DEF Preflight

\* A launcher takes the lock only while no lock file exists.
LEMMA LockLedgerKeeps ==
  ASSUME SlotsInv, NEW l \in Launchers, LockLedger(l)
  PROVE  SlotsInv'
<1> DEFINE p == IF ledgerLock = NoLauncher
                THEN IF LocksFirst(l) THEN "read" ELSE "write" ELSE "done"
           new == [run[l] EXCEPT !.pc = p]
<1>1. /\ run[l].pc = "lock" /\ p \in {"read", "write", "done"}
      /\ p = "write" => ~LocksFirst(l)
      /\ run' = [run EXCEPT ![l] = new]
      /\ UNCHANGED <<session, rows, created>>
      /\ p # "done" => ledgerLock = NoLauncher /\ ledgerLock' = l
      /\ p = "done" => UNCHANGED ledgerLock
  BY DEF LockLedger, SlotsInv, SlotsTypeOK
<1> HIDE DEF p
<1>2. new \in SlotLauncherState
  BY <1>1, Before, Assignments DEF Places
<1>3. /\ run'[l].pc = p /\ run'[l].op = run[l].op
      /\ run'[l].slot = run[l].slot /\ run'[l].copy = run[l].copy
  <2>1. run'[l] = new
    BY <1>1, Before
  <2>2. run[l] \in SlotLauncherState
    BY Before
  <2> QED
    BY <2>1, <2>2, Fields
<1>4. Owner(l)' => Owner(l) /\ ~Settled(l)' /\ ~Settled(l) /\ Expected(l)' = Expected(l)
  BY <1>1, <1>3 DEF Owner, Settled, Expected
<1>5. LockPart(l)'
  BY <1>1, <1>3, Before DEF LockPart, Holding
<1>6. RowPart(l)'
  BY <1>1, <1>3, <1>4, Before DEF RowPart
<1>7. CopyPart(l)'
  BY <1>1, <1>3, Before DEF CopyPart, LocksFirst
<1>8. \A m \in Launchers \ {l} : Holding(m) => ledgerLock' = m
  BY <1>1, Before
<1> QED
  BY <1>1, <1>2, <1>3, <1>4, <1>5, <1>6, <1>7, <1>8, Before, OwnStep

\* What a launcher reads is the ledger as it stands.
LEMMA ReadLedgerKeeps ==
  ASSUME SlotsInv, NEW l \in Launchers, ReadLedger(l)
  PROVE  SlotsInv'
<1> DEFINE p == IF run[l].op = "reserved" THEN Reserve(l) ELSE AfterRead(l)
           c == IF p = "done" THEN <<>> ELSE rows
           new == [run[l] EXCEPT !.pc = p, !.copy = c]
<1>1. /\ run[l].pc = "read" /\ run' = [run EXCEPT ![l] = new]
      /\ UNCHANGED <<session, rows, ledgerLock, created>>
  BY DEF ReadLedger
<1>2. /\ p \in {"write", "refused", "lock"} /\ c = rows
      /\ p \in {"write", "refused"} => Holding(l)
      /\ p = "write" /\ run[l].op = "reserved" => NextSlot(rows, run[l].slot)
      /\ p = "refused" => run[l].op = "reserved"
      /\ p = "lock" => run[l].op # "reserved"
  <2>1. CASE run[l].op = "reserved"
    BY <1>1, <2>1 DEF Reserve, Holding, LocksFirst
  <2>2. CASE run[l].op # "reserved"
    <3>1. run[l].slot \in DOMAIN rows
      BY <1>1, <2>2, Before DEF RowPart, Owner
    <3>2. p = IF LocksFirst(l) THEN "write" ELSE "lock"
      BY <2>2, <3>1 DEF AfterRead
    <3> QED
      BY <1>1, <2>2, <3>2 DEF Holding
  <2> QED
    BY <2>1, <2>2
<1> HIDE DEF p, c
<1>3. new \in SlotLauncherState
  BY <1>2, Before, Assignments DEF Places, SlotsInv, SlotsTypeOK
<1>4. /\ run'[l].pc = p /\ run'[l].op = run[l].op
      /\ run'[l].slot = run[l].slot /\ run'[l].copy = rows
  <2>1. run'[l] = new
    BY <1>1, Before
  <2>2. run[l] \in SlotLauncherState
    BY Before
  <2> QED
    BY <1>2, <2>1, <2>2, Fields
<1>5. Owner(l)' => Owner(l) /\ ~Settled(l)' /\ ~Settled(l) /\ Expected(l)' = Expected(l)
  BY <1>1, <1>2, <1>4 DEF Owner, Settled, Expected
<1>6. LockPart(l)'
  BY <1>1, <1>2, <1>4, Before DEF LockPart, Holding
<1>7. RowPart(l)'
  BY <1>1, <1>4, <1>5, Before DEF RowPart
<1>8. CopyPart(l)'
  BY <1>1, <1>2, <1>4 DEF CopyPart, LocksFirst, NextSlot
<1> QED
  BY <1>1, <1>3, <1>4, <1>5, <1>6, <1>7, <1>8, Before, OwnStep

\* A launcher that goes on to create its job has written its reservation.
LEMMA UnlockLedgerKeeps ==
  ASSUME SlotsInv, NEW l \in Launchers, UnlockLedger(l)
  PROVE  SlotsInv'
<1> DEFINE p == AfterUnlock(l)
           new == [run[l] EXCEPT !.copy = <<>>, !.pc = p]
<1>1. /\ run[l].pc \in {"unlock", "refused"} /\ run' = [run EXCEPT ![l] = new]
      /\ UNCHANGED <<session, rows, created>> /\ ledgerLock' = NoLauncher
      /\ p \in {"create", "poll", "done"}
      /\ p = "create" => run[l].pc = "unlock" /\ run[l].op = "reserved"
      /\ p = "poll" => run[l].pc = "unlock" /\ run[l].op = "submitted"
  BY DEF UnlockLedger, AfterUnlock
<1> HIDE DEF p
<1>2. new \in SlotLauncherState
  BY <1>1, Before, Assignments DEF Places
<1>3. run'[l].pc = p /\ run'[l].op = run[l].op /\ run'[l].slot = run[l].slot
  <2>1. run'[l] = new
    BY <1>1, Before
  <2>2. run[l] \in SlotLauncherState
    BY Before
  <2> QED
    BY <2>1, <2>2, Fields
<1>4. Owner(l)' => Owner(l) /\ ~Settled(l)' /\ ~Settled(l) /\ Expected(l)' = Expected(l)
  BY <1>1, <1>3 DEF Owner, Settled, Expected
<1>5. LockPart(l)'
  BY <1>1, <1>3, Before DEF LockPart, Holding
<1>6. RowPart(l)'
  BY <1>1, <1>3, <1>4, Before DEF RowPart
<1>7. CopyPart(l)'
  BY <1>1, <1>3, Before DEF CopyPart
<1>8. \A m \in Launchers \ {l} : ~Holding(m)
  BY <1>1, Before DEF Holding
<1> QED
  BY <1>1, <1>2, <1>3, <1>4, <1>5, <1>6, <1>7, <1>8, Before, OwnStep

\* The outcome of a job decides the next update, the rows are as before.
LEMMA PollJobKeeps ==
  ASSUME SlotsInv, NEW l \in Launchers, PollJob(l)
  PROVE  SlotsInv'
<1>1. PICK o \in RowStates, p \in Places :
        /\ run[l].pc = "poll" /\ run' = [run EXCEPT ![l] = [@ EXCEPT !.op = o, !.pc = p]]
        /\ o \in {"awaiting_validation", "failed", "submitted"}
        /\ p = "read" => session = "efficiency"
        /\ p = "lock" => session = "verification"
        /\ o = "submitted" => p = "done"
        /\ p \in {"read", "lock", "done"}
        /\ UNCHANGED <<session, rows, ledgerLock, created>>
  <2>1. CASE \E o \in {"awaiting_validation", "failed"} : UpdateSlot(l, o)
    BY <2>1, RowStatesAre DEF PollJob, UpdateSlot, Places, SlotsInv, SlotsTypeOK
  <2>2. CASE RunTo(l, "done")
    <3>1. run[l].op = "submitted"
      BY Before DEF PollJob, LockPart
    <3>2. [run[l] EXCEPT !.pc = "done"] = [run[l] EXCEPT !.op = "submitted", !.pc = "done"]
      BY <3>1, Before DEF SlotLauncherState
    <3>3. run' = [run EXCEPT ![l] = [@ EXCEPT !.op = "submitted", !.pc = "done"]]
      BY <2>2, <3>2
    <3> QED
      BY <3>3, RowStatesAre DEF PollJob, Places
  <2> QED
    BY <2>1, <2>2 DEF PollJob
<1> DEFINE new == [run[l] EXCEPT !.op = o, !.pc = p]
<1>2. new \in SlotLauncherState
  BY <1>1, Before, Assignments
<1>3. run'[l].pc = p /\ run'[l].op = o /\ run'[l].slot = run[l].slot
  <2>1. run'[l] = new
    BY <1>1, Before
  <2>2. run[l] \in SlotLauncherState
    BY Before
  <2> QED
    BY <2>1, <2>2, Fields
<1>4. Owner(l) /\ run[l].op = "submitted"
  BY <1>1, Before DEF LockPart, Owner
<1>5. Owner(l)' => ~Settled(l)' /\ ~Settled(l) /\ Expected(l)' = Expected(l)
  BY <1>1, <1>3, <1>4 DEF Owner, Settled, Expected
<1>6. LockPart(l)'
  BY <1>1, <1>3 DEF LockPart, Holding, LocksFirst
<1>7. RowPart(l)'
  BY <1>1, <1>3, <1>4, <1>5, Before DEF RowPart
<1>8. CopyPart(l)'
  BY <1>1, <1>3 DEF CopyPart, LocksFirst
<1> QED
  BY <1>1, <1>2, <1>3, <1>4, <1>6, <1>7, <1>8, Before, OwnStep

\* A killed launcher leaves the rows and its lock file as they are.
LEMMA KillLauncherKeeps ==
  ASSUME SlotsInv, NEW l \in Launchers, KillLauncher(l)
  PROVE  SlotsInv'
<1> DEFINE new == [run[l] EXCEPT !.pc = "done", !.copy = <<>>]
<1>1. run' = [run EXCEPT ![l] = new] /\ UNCHANGED <<session, rows, ledgerLock, created>>
  BY DEF KillLauncher
<1>2. new \in SlotLauncherState
  BY Before, Assignments DEF Places
<1>3. run'[l].pc = "done" /\ run'[l].op = run[l].op
  <2>1. run'[l] = new
    BY <1>1, Before
  <2>2. run[l] \in SlotLauncherState
    BY Before
  <2> QED
    BY <2>1, <2>2, Fields
<1>4. LockPart(l)' /\ RowPart(l)' /\ CopyPart(l)' /\ ~Owner(l)'
  BY <1>3, Before DEF LockPart, RowPart, CopyPart, Holding, Owner
<1> QED
  BY <1>1, <1>2, <1>4, Before, OwnStep

\* The launcher that creates its job is the only owner of its slot.
LEMMA CreateJobKeeps ==
  ASSUME SlotsInv, NEW l \in Launchers, CreateJob(l)
  PROVE  SlotsInv'
<1>1. PICK o \in RowStates, p \in Places :
        /\ run[l].pc = "create" /\ run' = [run EXCEPT ![l] = [@ EXCEPT !.op = o, !.pc = p]]
        /\ o \in {"submitted", "create_ambiguous", "reserved"}
        /\ p = "read" => session = "efficiency"
        /\ p = "lock" => session = "verification"
        /\ o = "reserved" => p = "done"
        /\ p \in {"read", "lock", "done"}
        /\ UNCHANGED <<session, rows, ledgerLock>>
        /\ created' = [created EXCEPT ![run[l].slot] = @ \cup {l}]
  <2>1. CASE \E o \in {"submitted", "create_ambiguous"} : UpdateSlot(l, o)
    BY <2>1, RowStatesAre DEF CreateJob, UpdateSlot, Places, SlotsInv, SlotsTypeOK
  <2>2. CASE RunTo(l, "done")
    <3>1. run[l].op = "reserved"
      BY Before DEF CreateJob, LockPart
    <3>2. [run[l] EXCEPT !.pc = "done"] = [run[l] EXCEPT !.op = "reserved", !.pc = "done"]
      BY <3>1, Before DEF SlotLauncherState
    <3>3. run' = [run EXCEPT ![l] = [@ EXCEPT !.op = "reserved", !.pc = "done"]]
      BY <2>2, <3>2
    <3> QED
      BY <3>3, RowStatesAre DEF CreateJob, Places
  <2> QED
    BY <2>1, <2>2 DEF CreateJob
<1> DEFINE new == [run[l] EXCEPT !.op = o, !.pc = p]
           k == run[l].slot
<1>2. /\ new \in SlotLauncherState
      /\ run' \in [Launchers -> SlotLauncherState] /\ run'[l] = new
      /\ \A m \in Launchers \ {l} : run'[m] = run[m]
  <2>1. new \in SlotLauncherState
    BY <1>1, Before, Assignments
  <2> QED
    BY <1>1, <2>1, Moves DEF SlotsInv
<1>3. run'[l].pc = p /\ run'[l].op = o /\ run'[l].slot = k
  <2>1. run[l] \in SlotLauncherState
    BY Before
  <2> QED
    BY <1>2, <2>1, Fields
<1>4. k \in AllSlots /\ created[k] = {} /\ Owner(l) /\ run[l].op = "reserved"
  <2>1. run[l].op = "reserved" /\ Owner(l)
    BY <1>1, Before DEF LockPart, Owner
  <2> QED
    BY <1>1, <2>1, Before DEF CopyPart, SlotLauncherState
<1>5. created' = [created EXCEPT ![k] = {l}]
  BY <1>1, <1>4
<1>6. SlotsTypeOK'
  BY <1>1, <1>2, <1>4, <1>5 DEF SlotsInv, SlotsTypeOK, SlotLauncherState, Places
<1>7. LauncherInv'
  <2>1. LockPart(l)' /\ RowPart(l)' /\ CopyPart(l)'
    <3>1. LockPart(l)'
      BY <1>1, <1>3 DEF LockPart, Holding, LocksFirst
    <3>2. Owner(l)' => ~Settled(l)' /\ ~Settled(l) /\ Expected(l)' = Expected(l)
      BY <1>1, <1>3, <1>4 DEF Owner, Settled, Expected
    <3>3. RowPart(l)'
      BY <1>1, <1>3, <1>4, <3>2, Before DEF RowPart
    <3>4. CopyPart(l)'
      BY <1>1, <1>3 DEF CopyPart, LocksFirst
    <3> QED
      BY <3>1, <3>3, <3>4
  <2>2. ASSUME NEW m \in Launchers \ {l}
        PROVE  LockPart(m)' /\ RowPart(m)' /\ CopyPart(m)'
    <3>1. LockPart(m) /\ RowPart(m) /\ CopyPart(m) /\ run'[m] = run[m]
      BY <1>2, Before
    <3>2. LockPart(m)'
      BY <1>1, <3>1 DEF LockPart, Holding, LocksFirst
    <3>3. RowPart(m)'
      BY <1>1, <3>1 DEF RowPart, Owner, Settled, Expected
    <3>4. Owner(m) => run[m].slot # k
      BY <1>4 DEF SlotsInv, UniqueInv
    <3>5. run[m].pc \in {"unlock", "create"} => created'[run[m].slot] = created[run[m].slot]
      <4>1. run[m].slot \in AllSlots
        BY Before DEF SlotLauncherState
      <4> QED
        BY <1>5, <3>4, <4>1 DEF Owner, SlotsInv, SlotsTypeOK
    <3>6. CopyPart(m)'
      BY <1>1, <3>1, <3>5 DEF CopyPart, LocksFirst, NextSlot
    <3> QED
      BY <3>2, <3>3, <3>6
  <2> QED
    BY <2>1, <2>2 DEF LauncherInv
<1>8. UniqueInv'
  <2>1. \A m \in Launchers : Owner(m)' => Owner(m) /\ run'[m].slot = run[m].slot
    BY <1>2, <1>3, <1>4 DEF Owner
  <2> QED
    BY <2>1 DEF UniqueInv, SlotsInv
<1>9. CreatedInv'
  <2>1. k \in DOMAIN rows /\ \A i \in 1..(k - 1) : rows[i] = "validated"
    BY <1>4, Before DEF RowPart
  <2> QED
    BY <1>1, <1>4, <1>5, <2>1 DEF CreatedInv, SlotsInv, SlotsTypeOK
<1> QED
  BY <1>6, <1>7, <1>8, <1>9 DEF SlotsInv

\* Whoever is about to write is the only owner of a slot, or will be.
LEMMA WritersOwnAlone ==
  ASSUME SlotsInv, NEW l \in Launchers, run[l].pc = "write", NEW m \in Launchers \ {l}
  PROVE  ~Owner(m) /\ ~Holding(m)
<1>1. ~Holding(m)
  BY Before DEF Holding
<1>2. ~Settled(m)
  BY <1>1 DEF Settled, Holding
<1>3. SUFFICES ASSUME Owner(m) PROVE FALSE
  BY <1>1
<1>4. /\ Len(rows) = run[m].slot /\ run[m].slot \in DOMAIN rows
      /\ rows[run[m].slot] # "validated"
  BY <1>2, <1>3, Before DEF RowPart, Expected
<1>5. CASE run[l].op = "reserved"
  BY <1>4, <1>5, Before DEF CopyPart, NextSlot
<1>6. CASE run[l].op # "reserved"
  <2>1. Owner(l) /\ ~Settled(l)
    BY <1>6 DEF Owner, Settled
  <2>2. Len(rows) = run[l].slot
    BY <2>1, Before DEF RowPart
  <2> QED
    BY <1>3, <1>4, <2>1, <2>2 DEF SlotsInv, UniqueInv
<1> QED
  BY <1>5, <1>6

\* A reservation appends a row behind validated ones; an update replaces the last
\* row by a later state of it.
LEMMA WriteEffect ==
  ASSUME SlotsInv, NEW l \in Launchers, WriteLedger(l)
  PROVE  LET k == run[l].slot IN
         /\ k \in AllSlots /\ run[l].op \in RowStates /\ run[l].op # "validated"
         /\ Len(rows') = k /\ rows' \in Seq(RowStates) /\ rows'[k] = run[l].op
         /\ \A i \in 1..(k - 1) : i \in DOMAIN rows /\ rows[i] = "validated" /\ rows'[i] = rows[i]
         /\ \/ run[l].op = "reserved" /\ Len(rows) = k - 1
            \/ run[l].op # "reserved" /\ Len(rows) = k /\ rows[k] = Expected(l) /\ Owner(l)
<1> DEFINE k == run[l].slot
<1>1. /\ k \in AllSlots /\ run[l].op \in RowStates /\ run[l].op # "validated"
      /\ run[l].pc = "write" /\ run[l].copy = rows /\ rows \in Seq(RowStates)
  BY Before DEF WriteLedger, SlotLauncherState, LockPart, CopyPart, SlotsInv, SlotsTypeOK
<1>2. CASE run[l].op = "reserved"
  <2>1. rows' = Append(rows, "reserved")
    BY <1>1, <1>2 DEF WriteLedger
  <2>2. Len(rows) = k - 1 /\ \A i \in DOMAIN rows : rows[i] = "validated"
    BY <1>1, <1>2, Before DEF CopyPart, NextSlot
  <2> QED
    BY <1>1, <1>2, <2>1, <2>2
<1>3. CASE run[l].op # "reserved"
  <2>1. rows' = [rows EXCEPT ![k] = run[l].op]
    BY <1>1, <1>3 DEF WriteLedger
  <2>2. Owner(l) /\ ~Settled(l)
    BY <1>1, <1>3 DEF Owner, Settled
  <2>3. /\ Len(rows) = k /\ rows[k] = Expected(l) /\ k \in DOMAIN rows
        /\ \A i \in 1..(k - 1) : rows[i] = "validated"
    BY <2>2, Before DEF RowPart
  <2> QED
    BY <1>1, <1>3, <2>1, <2>2, <2>3
<1> QED
  BY <1>2, <1>3

\* The write puts back the rows as they stand, with one new row or one row advanced.
LEMMA WriteLedgerKeeps ==
  ASSUME SlotsInv, NEW l \in Launchers, WriteLedger(l)
  PROVE  SlotsInv'
<1> DEFINE k == run[l].slot
           new == [run[l] EXCEPT !.pc = "unlock", !.copy = <<>>]
<1>1. /\ run[l].pc = "write" /\ run' = [run EXCEPT ![l] = new]
      /\ UNCHANGED <<session, ledgerLock, created>>
  BY DEF WriteLedger
<1>2. /\ new \in SlotLauncherState
      /\ run' \in [Launchers -> SlotLauncherState] /\ run'[l] = new
      /\ \A m \in Launchers \ {l} : run'[m] = run[m]
  <2>1. new \in SlotLauncherState
    BY Before, Assignments DEF Places
  <2> QED
    BY <1>1, <2>1, Moves DEF SlotsInv
<1>3. run'[l].pc = "unlock" /\ run'[l].op = run[l].op /\ run'[l].slot = k
  <2>1. run[l] \in SlotLauncherState
    BY Before
  <2> QED
    BY <1>2, <2>1, Fields
<1>4. SlotsTypeOK'
  BY <1>1, <1>2, WriteEffect DEF SlotsInv, SlotsTypeOK, SlotLauncherState, Places
<1>5. ASSUME NEW m \in Launchers \ {l}
      PROVE  LockPart(m)' /\ RowPart(m)' /\ CopyPart(m)' /\ ~Owner(m)'
  <2>1. /\ ~Owner(m) /\ ~Holding(m) /\ run'[m] = run[m]
        /\ LockPart(m)
    BY <1>1, <1>2, Before, WritersOwnAlone
  <2>2. ~Owner(m)' /\ ~Holding(m)'
    BY <1>1, <2>1 DEF Owner, Holding, LocksFirst
  <2>3. LockPart(m)' /\ RowPart(m)'
    BY <2>1, <2>2 DEF LockPart, RowPart
  <2>4. CopyPart(m)'
    BY <2>2 DEF CopyPart, Owner, Holding, LocksFirst
  <2> QED
    BY <2>2, <2>3, <2>4
<1>6. LockPart(l)' /\ RowPart(l)' /\ CopyPart(l)'
  <2>1. LockPart(l)'
    BY <1>1, <1>3, Before, WriteEffect DEF LockPart, Holding
  <2>2. ~Settled(l)' => run[l].op \in {"reserved", "submitted"} /\ Expected(l)' = run[l].op
    BY <1>3 DEF Settled, Expected
  <2>3. RowPart(l)'
    BY <1>3, <2>2, WriteEffect DEF RowPart
  <2>4. run[l].op = "reserved" => created[k] = {}
    <3>1. k \in AllSlots /\ (run[l].op = "reserved" => Len(rows) = k - 1)
      BY WriteEffect
    <3>2. rows \in Seq(RowStates) /\ (created[k] # {} => k \in DOMAIN rows)
      BY <3>1 DEF SlotsInv, CreatedInv, SlotsTypeOK
    <3> QED
      BY <3>1, <3>2
  <2>5. CopyPart(l)'
    BY <1>1, <1>3, <2>4 DEF CopyPart
  <2> QED
    BY <2>1, <2>3, <2>5
<1>7. LauncherInv'
  BY <1>5, <1>6 DEF LauncherInv
<1>8. UniqueInv'
  BY <1>5 DEF UniqueInv
<1>9. CreatedInv'
  <2> SUFFICES ASSUME NEW j \in AllSlots
               PROVE  /\ \A x, y \in created'[j] : x = y
                      /\ created'[j] # {} => /\ j \in DOMAIN rows'
                                             /\ \A i \in 1..(j - 1) : rows'[i] = "validated"
    BY DEF CreatedInv
  <2>1. /\ \A x, y \in created[j] : x = y
        /\ created[j] # {} => j \in DOMAIN rows /\ \A i \in 1..(j - 1) : rows[i] = "validated"
    BY DEF SlotsInv, CreatedInv
  <2>2. rows \in Seq(RowStates)
    BY DEF SlotsInv, SlotsTypeOK
  <2> QED
    <3>1. /\ k \in AllSlots /\ Len(rows) \in {k - 1, k} /\ Len(rows') = k
          /\ rows' \in Seq(RowStates)
          /\ \A i \in 1..(k - 1) : rows'[i] = rows[i]
      BY WriteEffect
    <3>2. created[j] # {} => j <= k /\ j \in DOMAIN rows'
      BY <2>1, <2>2, <3>1
    <3>3. created[j] # {} => \A i \in 1..(j - 1) : rows'[i] = rows[i] /\ rows[i] = "validated"
      BY <2>1, <3>1, <3>2
    <3> QED
      BY <1>1, <2>1, <3>2, <3>3
<1> QED
  BY <1>4, <1>7, <1>8, <1>9 DEF SlotsInv

\* Validation advances a row whose launcher has written its last update.
LEMMA ValidateSlotKeeps ==
  ASSUME SlotsInv, NEW k \in AllSlots, ValidateSlot(k)
  PROVE  SlotsInv'
<1>1. /\ k \in DOMAIN rows /\ rows[k] = "awaiting_validation" /\ rows \in Seq(RowStates)
      /\ rows' = [rows EXCEPT ![k] = "validated"]
      /\ UNCHANGED <<session, ledgerLock, run, created>>
  BY DEF ValidateSlot, SlotsInv, SlotsTypeOK
<1>2. /\ rows' \in Seq(RowStates) /\ DOMAIN rows' = DOMAIN rows /\ Len(rows') = Len(rows)
      /\ \A i \in DOMAIN rows : rows[i] = "validated" => rows'[i] = "validated"
  BY <1>1, RowStatesAre
<1>3. SlotsTypeOK'
  BY <1>1, <1>2 DEF SlotsInv, SlotsTypeOK
<1>4. ASSUME NEW l \in Launchers
      PROVE  LockPart(l)' /\ RowPart(l)' /\ CopyPart(l)'
  <2>1. ~(Owner(l) /\ ~Settled(l))
    BY <1>1, Before DEF RowPart, Expected
  <2>2. run[l].pc # "write"
    <3>1. CASE run[l].op = "reserved"
      BY <1>1, <3>1, Before DEF CopyPart, NextSlot
    <3>2. CASE run[l].op # "reserved"
      BY <2>1, <3>2 DEF Owner, Settled
    <3> QED
      BY <3>1, <3>2
  <2>3. ~(run[l].pc = "lock" /\ ~LocksFirst(l))
    BY <2>1 DEF LocksFirst, Owner, Settled
  <2>4. LockPart(l)'
    BY <1>1, Before DEF LockPart, Holding, LocksFirst
  <2>5. RowPart(l)'
    <3>1. ~(Owner(l)' /\ ~Settled(l)')
      BY <1>1, <2>1 DEF Owner, Settled
    <3>2. Owner(l)' => Owner(l) /\ run'[l].slot = run[l].slot
      BY <1>1 DEF Owner
    <3>3. run[l].slot \in AllSlots
      BY Before DEF SlotLauncherState
    <3> QED
      BY <1>1, <1>2, <3>1, <3>2, <3>3, Before DEF RowPart
  <2>6. CopyPart(l)'
    BY <1>1, <2>2, <2>3, Before DEF CopyPart, LocksFirst
  <2> QED
    BY <2>4, <2>5, <2>6
<1>5. LauncherInv'
  BY <1>4 DEF LauncherInv
<1>6. UniqueInv'
  BY <1>1 DEF SlotsInv, UniqueInv, Owner
<1>7. CreatedInv'
  BY <1>1, <1>2 DEF SlotsInv, CreatedInv
<1> QED
  BY <1>3, <1>5, <1>6, <1>7 DEF SlotsInv

\* Every step keeps the inductive invariant: one lemma per action.
LEMMA SlotsInductive == SlotsInv /\ [SlotsNext]_slotVars => SlotsInv'
<1> SUFFICES ASSUME SlotsInv, [SlotsNext]_slotVars PROVE SlotsInv'
  OBVIOUS
<1>1. CASE UNCHANGED slotVars
  BY <1>1 DEF slotVars, SlotsInv, SlotsTypeOK, LauncherInv, LockPart, RowPart, CopyPart, UniqueInv,
              CreatedInv, Holding, LocksFirst, Owner, Settled, Expected, NextSlot
<1>2. CASE SlotsNext
  BY <1>2, PreflightKeeps, LockLedgerKeeps, ReadLedgerKeeps, WriteLedgerKeeps, UnlockLedgerKeeps,
     CreateJobKeeps, PollJobKeeps, KillLauncherKeeps, ValidateSlotKeeps DEF SlotsNext
<1> QED
  BY <1>1, <1>2

\* The inductive invariant holds in every reachable state.
LEMMA SlotsInvariant == SlotsSpec => []SlotsInv
  BY SlotsInitially, SlotsInductive, PTL DEF SlotsSpec

\* Every variable of the slot ledgers keeps its type.
THEOREM SlotsTypeCorrect == SlotsSpec => []SlotsTypeOK
<1>1. SlotsInv => SlotsTypeOK
  BY DEF SlotsInv
<1> QED
  BY <1>1, SlotsInvariant, PTL

\* However many launchers race for however many slots, and wherever they are killed, a
\* slot pays for one job at most and only after its predecessors were validated
\* (_reserve_efficiency_slot, _reserve_verification_slot).
THEOREM OneCreate == SlotsSpec => []OneCreatePerSlot
<1>1. SlotsInv => OneCreatePerSlot
  <2> SUFFICES ASSUME SlotsInv, NEW k \in AllSlots
               PROVE  /\ Cardinality(created[k]) <= 1
                      /\ created[k] # {} => /\ k \in DOMAIN rows
                                            /\ \A i \in 1..(k - 1) : rows[i] = "validated"
    BY DEF OneCreatePerSlot
  <2>1. CASE created[k] = {}
    BY <2>1, FS_EmptySet
  <2>2. CASE created[k] # {}
    <3>1. \A l, m \in created[k] : l = m
      BY DEF SlotsInv, CreatedInv
    <3>2. PICK l : l \in created[k]
      BY <2>2
    <3>3. created[k] = {l}
      BY <3>1, <3>2
    <3>4. Cardinality(created[k]) = 1
      BY <3>3, FS_Singleton
    <3> QED
      BY <2>2, <3>4 DEF SlotsInv, CreatedInv
  <2> QED
    BY <2>1, <2>2
<1> QED
  BY <1>1, SlotsInvariant, PTL

\* The rank of every row state.
LEMMA ProgressIs ==
  /\ Progress["reserved"] = 1 /\ Progress["create_ambiguous"] = 2 /\ Progress["submitted"] = 2
  /\ Progress["failed"] = 3 /\ Progress["awaiting_validation"] = 3 /\ Progress["validated"] = 4
  BY DEF Progress

\* No rewrite of the ledger loses a reservation or takes a slot back, although an
\* efficiency update writes rows it read before it had the lock
\* (_update_efficiency_slot, _update_verification_slot).
THEOREM RowsAdvance == SlotsSpec => RowsOnlyAdvance
<1> DEFINE Advance ==
      \A k \in DOMAIN rows : k \in DOMAIN rows' /\ Progress[rows[k]] <= Progress[rows'[k]]
<1>1. ASSUME SlotsInv, [SlotsNext]_slotVars PROVE Advance
  <2>1. rows \in Seq(RowStates)
    BY <1>1 DEF SlotsInv, SlotsTypeOK
  <2>2. ASSUME UNCHANGED rows PROVE Advance
    BY <2>1, <2>2, RowStatesAre, ProgressIs
  <2>3. ASSUME NEW l \in Launchers, WriteLedger(l) PROVE Advance
    <3> DEFINE k == run[l].slot
    <3>1. ASSUME run[l].op # "reserved", rows[k] = Expected(l)
          PROVE  Progress[rows[k]] <= Progress[run[l].op]
      <4>1. run[l].pc = "write" /\ run[l].op \in RowStates
        BY <1>1, <2>3, WriteEffect DEF WriteLedger
      <4> QED
        BY <3>1, <4>1, RowStatesAre, ProgressIs DEF Expected
    <3>2. ASSUME NEW i \in DOMAIN rows
          PROVE  i \in DOMAIN rows' /\ Progress[rows[i]] <= Progress[rows'[i]]
      <4>1. CASE i = k
        BY <1>1, <2>1, <2>3, <3>1, <3>2, <4>1, WriteEffect
      <4>2. CASE i # k
        BY <1>1, <2>1, <2>3, <3>2, <4>2, WriteEffect, ProgressIs
      <4> QED
        BY <4>1, <4>2
    <3> QED
      BY <3>2
  <2>4. ASSUME NEW k \in AllSlots, ValidateSlot(k) PROVE Advance
    BY <2>1, <2>4, RowStatesAre, ProgressIs DEF ValidateSlot
  <2>5. CASE UNCHANGED slotVars
    BY <2>2, <2>5 DEF slotVars
  <2>6. CASE SlotsNext
    BY <2>2, <2>3, <2>4, <2>6 DEF SlotsNext, Preflight, LockLedger, ReadLedger, UnlockLedger,
                                  CreateJob, PollJob, KillLauncher
  <2> QED
    BY <1>1, <2>5, <2>6
<1>2. SlotsInv /\ [SlotsNext]_slotVars => [Advance]_slotVars
  BY <1>1
<1> QED
  BY <1>2, SlotsInvariant, PTL DEF SlotsSpec, RowsOnlyAdvance

=============================================================================

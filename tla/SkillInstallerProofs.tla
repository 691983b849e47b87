------------------------ MODULE SkillInstallerProofs ------------------------
(* Theorems about SkillInstaller, for any number of runs, agents, versions  *)
(* and texts.                                                              *)
EXTENDS SkillInstaller, TLAPS

USE SkillAssumption

RunState ==
    [call : Calls, force : BOOLEAN, text : Package \cup {None},
     selected : SUBSET Agent, todo : SUBSET Agent, plan : SUBSET Agent,
     temporary : Package \cup {None, Torn}, wrote : SUBSET Agent]

Looking == {"exists", "is_file", "read_text"}
Writing == {"next", "open", "write", "replace", "done"}

\* For a run in state s, with files f, of which others changed those of l:
\* What is moved to the destination is the whole text.
TextWhole(s) ==
    /\ s.call \notin {"idle", "failed"} => s.text \in Package
    /\ s.call = "replace" => s.temporary = s.text
\* Nothing is written before everything has been looked at.
PlannedFirst(s) ==
    /\ s.call \in Looking \cup {"refused"} => s.wrote = {}
    /\ s.call \in Writing => s.todo = {}
    /\ s.call = "done" => s.plan = {}
    /\ s.todo \cap s.plan = {}
\* A selected agent is still to be looked at, or planned, or has the text.
Accounted(s, f, l) ==
    \A a \in s.selected \ l : a \in s.todo \/ a \in s.plan \/ f[a] = s.text
\* Without --force a file is planned only where there was none.
PlannedWhereNone(s, f, l) ==
    \A a \in s.plan : s.force \/ f[a] = None \/ a \in l

RunOK(s, f, l) ==
    TextWhole(s) /\ PlannedFirst(s) /\ Accounted(s, f, l) /\ PlannedWhereNone(s, f, l)

IInv == WholeFiles /\ \A r \in Run : RunOK(run[r], file, late[r])

-----------------------------------------------------------------------------
(* The invariant *)

LEMMA InitInv == Init => IInv
<1> SUFFICES ASSUME Init PROVE IInv
  OBVIOUS
<1>1. WholeFiles
  BY DEF Init, NewRun, WholeFiles, Calls
<1>2. ASSUME NEW r \in Run PROVE RunOK(run[r], file, late[r])
  BY DEF Init, NewRun, RunOK, TextWhole, PlannedFirst, Accounted, PlannedWhereNone,
         Looking, Writing
<1> QED BY <1>1, <1>2 DEF IInv

\* A run that moves, and changes no file, has to keep its own part only.
LEMMA OneMoves ==
  ASSUME IInv, NEW r \in Run, NEW s \in RunState, Becomes(r, s), file' = file,
         NEW l \in SUBSET Agent, late' = [late EXCEPT ![r] = l],
         RunOK(s, file, l)
  PROVE  IInv'
<1>1. WholeFiles'
  BY DEF IInv, WholeFiles, RunState, Becomes
<1>2. ASSUME NEW q \in Run PROVE RunOK(run'[q], file', late'[q])
  BY DEF IInv, WholeFiles, Becomes
<1> QED BY <1>1, <1>2 DEF IInv

LEMMA OneMovesOn ==
  ASSUME IInv, NEW r \in Run, NEW s \in RunState, Becomes(r, s),
         UNCHANGED <<file, late>>, RunOK(s, file, late[r])
  PROVE  IInv'
<1>1. late' = [late EXCEPT ![r] = late[r]] /\ late[r] \in SUBSET Agent
  BY DEF IInv, WholeFiles
<1> QED BY <1>1, OneMoves

LEMMA EndInv ==
  ASSUME IInv, NEW r \in Run, NEW how \in {"failed", "killed"},
         NEW t \in {None, run[r].temporary},
         how = "killed" => run[r].call \notin {"idle", "failed"},
         Becomes(r, [run[r] EXCEPT !.call = how, !.temporary = t]),
         UNCHANGED <<file, late>>
  PROVE  IInv'
<1> DEFINE s == [run[r] EXCEPT !.call = how, !.temporary = t]
<1>t. run[r] \in RunState
  BY DEF IInv, WholeFiles, RunState
<1>1. s \in RunState
  BY <1>t DEF RunState, Calls
<1>2. RunOK(s, file, late[r])
  BY <1>t DEF RunState, IInv, WholeFiles, RunOK, TextWhole, PlannedFirst, Accounted, PlannedWhereNone,
         Looking, Writing
<1> QED BY <1>1, <1>2, OneMovesOn

LEMMA StepInv == IInv /\ [Next]_vars => IInv'
<1> SUFFICES ASSUME IInv, [Next]_vars PROVE IInv'
  OBVIOUS
<1>t. /\ file \in [Agent -> {None, Dir} \cup Package \cup Edit]
      /\ run \in [Run -> RunState]
      /\ late \in [Run -> SUBSET Agent]
  BY DEF IInv, WholeFiles, RunState
<1>k. ASSUME NEW r \in Run PROVE RunOK(run[r], file, late[r])
  BY DEF IInv
<1>1. ASSUME NEW r \in Run, Begin(r) PROVE IInv'
  <2>1. CASE Ends(r, "failed")
    BY <1>1, <2>1, EndInv DEF Begin, Ends
  <2>2. ASSUME NEW force \in BOOLEAN, NEW text \in Package, NEW selected \in SUBSET Agent,
               Becomes(r, [NewRun EXCEPT !.call = "exists", !.force = force,
                                         !.text = text, !.selected = selected,
                                         !.todo = selected])
        PROVE  IInv'
    <3> DEFINE s == [NewRun EXCEPT !.call = "exists", !.force = force,
                                   !.text = text, !.selected = selected,
                                   !.todo = selected]
    <3>1. s \in RunState
      BY DEF NewRun, RunState, Calls
    <3>2. RunOK(s, file, late[r])
      BY DEF NewRun, RunOK, TextWhole, PlannedFirst, Accounted, PlannedWhereNone,
             Looking, Writing
    <3> QED BY <1>1, <2>2, <3>1, <3>2, OneMovesOn DEF Begin
  <2>3. {Agent} \cup {{a} : a \in Agent} \subseteq SUBSET Agent
    OBVIOUS
  <2> QED BY <1>1, <2>1, <2>2, <2>3 DEF Begin
<1>2. ASSUME NEW r \in Run, NEW a \in Agent, NEW changed \in BOOLEAN,
             run[r].call \in Looking, First(a, run[r].todo), Looked(r, a, changed),
             file' = file, late' = [late EXCEPT ![r] = @ \ {a}],
             IF changed THEN run[r].force \/ file[a] = None ELSE file[a] = run[r].text
      PROVE  IInv'
  <2> DEFINE s == [run[r] EXCEPT !.todo = @ \ {a},
                                 !.plan = IF changed THEN @ \cup {a} ELSE @,
                                 !.call = IF run[r].todo = {a} THEN "next" ELSE "exists"]
             l == late[r] \ {a}
  <2>1. /\ s.call = IF run[r].todo = {a} THEN "next" ELSE "exists"
        /\ s.force = run[r].force /\ s.text = run[r].text
        /\ s.selected = run[r].selected
        /\ s.todo = run[r].todo \ {a}
        /\ s.plan = IF changed THEN run[r].plan \cup {a} ELSE run[r].plan
        /\ s.temporary = run[r].temporary /\ s.wrote = run[r].wrote
    BY <1>t DEF RunState
  <2>2. s \in RunState
    <3>1. /\ run[r].todo \ {a} \in SUBSET Agent
          /\ (IF changed THEN run[r].plan \cup {a} ELSE run[r].plan) \in SUBSET Agent
          /\ (IF run[r].todo = {a} THEN "next" ELSE "exists") \in Calls
      BY <1>t DEF RunState, Calls
    <3> QED BY <1>t, <3>1 DEF RunState
  <2> HIDE DEF s
  <2>3. a \in run[r].todo /\ a \notin run[r].plan
    BY <1>k, <1>2 DEF First, RunOK, PlannedFirst
  <2>4. TextWhole(s)
    BY <1>k, <1>2, <2>1 DEF RunOK, TextWhole, Looking
  <2>5. PlannedFirst(s)
    BY <1>k, <1>2, <2>1 DEF RunOK, PlannedFirst, Looking, Writing
  <2>6. Accounted(s, file, l)
    BY <1>k, <1>2, <2>1 DEF RunOK, Accounted
  <2>7. PlannedWhereNone(s, file, l)
    BY <1>k, <1>2, <2>1, <2>3 DEF RunOK, PlannedWhereNone
  <2>8. RunOK(s, file, l)
    BY <2>4, <2>5, <2>6, <2>7 DEF RunOK
  <2>9. l \in SUBSET Agent /\ late' = [late EXCEPT ![r] = l]
    BY <1>t, <1>2
  <2>10. Becomes(r, s)
    BY <1>2 DEF Looked, s
  <2> QED BY <1>2, <2>2, <2>8, <2>9, <2>10, OneMoves
<1>3. ASSUME NEW r \in Run, NEW a \in Agent, NEW call \in {"is_file", "read_text"},
             run[r].call \in Looking,
             Becomes(r, [run[r] EXCEPT !.call = call]), file' = file,
             (late' = [late EXCEPT ![r] = @ \ {a}] /\ a \in run[r].todo) \/ late' = late
      PROVE  IInv'
  <2> DEFINE s == [run[r] EXCEPT !.call = call]
  <2>1. s \in RunState
    BY <1>t DEF RunState, Calls
  <2>2. \/ RunOK(s, file, late[r]) /\ late' = late
        \/ RunOK(s, file, late[r] \ {a}) /\ late' = [late EXCEPT ![r] = late[r] \ {a}]
    BY <1>t, <1>k, <1>3 DEF RunState, RunOK, TextWhole, PlannedFirst, Accounted,
       PlannedWhereNone, Looking, Writing
  <2>3. late[r] \ {a} \in SUBSET Agent
    BY <1>t
  <2> QED BY <1>3, <2>1, <2>2, <2>3, OneMoves, OneMovesOn
<1>4. ASSUME NEW r \in Run, Exists(r) PROVE IInv'
  <2>1. PICK a \in Agent :
           /\ First(a, run[r].todo)
           /\ IF file[a] = None THEN Looked(r, a, TRUE)
                                ELSE Becomes(r, [run[r] EXCEPT !.call = "is_file"])
           /\ late' = [late EXCEPT ![r] = @ \ {a}]
    BY <1>4 DEF Exists
  <2>2. run[r].call \in Looking /\ file' = file /\ a \in run[r].todo
    BY <1>4, <2>1 DEF Exists, At, Looking, First
  <2>3. CASE file[a] = None
    BY <1>2, <2>1, <2>2, <2>3
  <2>4. CASE file[a] # None
    BY <1>3, <2>1, <2>2, <2>4
  <2> QED BY <2>3, <2>4
<1>5. ASSUME NEW r \in Run, IsFile(r) PROVE IInv'
  <2>1. PICK a \in Agent :
           IF file[a] \in {None, Dir}
             THEN Ends(r, "failed")
             ELSE Becomes(r, [run[r] EXCEPT !.call = "read_text"])
    BY <1>5 DEF IsFile
  <2>2. run[r].call \in Looking /\ UNCHANGED <<file, late>>
    BY <1>5 DEF IsFile, At, Looking
  <2> QED BY <1>3, <2>1, <2>2, EndInv DEF Ends
<1>6. ASSUME NEW r \in Run, ReadText(r) PROVE IInv'
  <2>1. PICK a \in Agent :
           /\ First(a, run[r].todo)
           /\ \/ file[a] = run[r].text /\ Looked(r, a, FALSE)
              \/ /\ file[a] \notin {run[r].text, None, Dir}
                 /\ IF run[r].force THEN Looked(r, a, TRUE) ELSE Ends(r, "refused")
              \/ Ends(r, "failed")
           /\ late' = [late EXCEPT ![r] = @ \ {a}]
    BY <1>6 DEF ReadText
  <2>2. run[r].call \in Looking /\ file' = file /\ a \in run[r].todo
    BY <1>6, <2>1 DEF ReadText, At, Looking, First
  <2>3. ASSUME NEW how \in {"refused", "failed"}, Ends(r, how) PROVE IInv'
    <3> DEFINE s == [run[r] EXCEPT !.call = how, !.temporary = None]
               l == late[r] \ {a}
    <3>1. s \in RunState
      BY <1>t DEF RunState, Calls
    <3>2. RunOK(s, file, l)
      <4>1. TextWhole(s) /\ PlannedFirst(s)
        BY <1>t, <1>k, <2>2 DEF RunState, RunOK, TextWhole, PlannedFirst, Looking, Writing
      <4>2. a \notin run[r].plan
        BY <1>k, <2>2 DEF RunOK, PlannedFirst
      <4>3. Accounted(s, file, l) /\ PlannedWhereNone(s, file, l)
        BY <1>t, <1>k, <2>2, <4>2 DEF RunState, RunOK, Accounted, PlannedWhereNone
      <4> QED BY <4>1, <4>3 DEF RunOK
    <3>3. l \in SUBSET Agent /\ late' = [late EXCEPT ![r] = l]
      BY <1>t, <2>1
    <3> QED BY <2>2, <2>3, <3>1, <3>2, <3>3, OneMoves DEF Ends
  <2> QED BY <1>2, <2>1, <2>2, <2>3
<1>7. ASSUME NEW r \in Run, NextPlan(r) \/ Open(r) \/ Write(r) PROVE IInv'
  <2>1. CASE Ends(r, "failed") /\ UNCHANGED <<file, late>>
    BY <2>1, EndInv DEF Ends
  <2>2. ASSUME NEW s \in RunState, Becomes(r, s), UNCHANGED <<file, late>>,
               s \in {[run[r] EXCEPT !.call = "done", !.temporary = None],
                      [run[r] EXCEPT !.call = "open"],
                      [run[r] EXCEPT !.call = "write", !.temporary = Torn],
                      [run[r] EXCEPT !.call = "replace", !.temporary = run[r].text]},
               run[r].call \in Writing,
               s.call = "done" => run[r].plan = {}
        PROVE  IInv'
    <3>1. TextWhole(s) /\ PlannedFirst(s)
      BY <1>t, <1>k, <2>2 DEF RunState, RunOK, TextWhole, PlannedFirst, Looking, Writing
    <3>2. Accounted(s, file, late[r]) /\ PlannedWhereNone(s, file, late[r])
      BY <1>t, <1>k, <2>2 DEF RunState, RunOK, Accounted, PlannedWhereNone
    <3> QED BY <2>2, <3>1, <3>2, OneMovesOn DEF RunOK
  <2>3. CASE NextPlan(r)
    BY <1>t, <2>2, <2>3 DEF NextPlan, Ends, At, Writing, RunState, Calls
  <2>4. CASE Open(r)
    BY <1>t, <2>1, <2>2, <2>4 DEF Open, At, Writing, RunState, Calls
  <2>5. CASE Write(r)
    <3>1. run[r].text \in Package
      BY <1>k, <2>5 DEF Write, At, RunOK, TextWhole
    <3> QED BY <1>t, <2>1, <2>2, <2>5, <3>1 DEF Write, At, Writing, RunState, Calls
  <2> QED BY <1>7, <2>3, <2>4, <2>5
<1>8. ASSUME NEW r \in Run, Replace(r) PROVE IInv'
  <2>1. CASE Ends(r, "failed") /\ UNCHANGED <<file, late>>
    BY <2>1, EndInv DEF Ends
  <2>2. ASSUME NEW a \in Agent, a \in run[r].plan, At(r, "replace"),
               file' = [file EXCEPT ![a] = run[r].temporary],
               Changes(r, a),
               Becomes(r, [run[r] EXCEPT !.call = "next", !.plan = @ \ {a},
                                         !.temporary = None, !.wrote = @ \cup {a}])
        PROVE  IInv'
    <3> DEFINE s == [run[r] EXCEPT !.call = "next", !.plan = @ \ {a},
                                   !.temporary = None, !.wrote = @ \cup {a}]
    <3>1. s \in RunState /\ run'[r] = s
      BY <1>t, <2>2 DEF RunState, Calls, Becomes
    <3>2. run[r].temporary = run[r].text /\ run[r].text \in Package
      BY <1>k, <2>2 DEF At, RunOK, TextWhole
    <3>3. WholeFiles'
      BY <1>t, <2>2, <3>1, <3>2 DEF WholeFiles, RunState, Becomes, Changes
    <3>4. TextWhole(s) /\ PlannedFirst(s)
      BY <1>t, <1>k, <2>2 DEF At, RunState, RunOK, TextWhole, PlannedFirst, Looking, Writing
    <3>5. late'[r] = late[r] \ {a} /\ \A q \in Run \ {r} : late'[q] = late[q] \cup {a}
      BY <2>2 DEF Changes
    <3>6. file'[a] = run[r].text /\ \A b \in Agent \ {a} : file'[b] = file[b]
      BY <1>t, <2>2, <3>2
    <3>7. Accounted(s, file', late'[r])
      <4>1. s.selected = run[r].selected /\ s.todo = run[r].todo /\ s.text = run[r].text
            /\ s.plan = run[r].plan \ {a} /\ s.selected \subseteq Agent
        BY <1>t DEF RunState
      <4> HIDE DEF s
      <4> QED BY <1>k, <3>5, <3>6, <4>1 DEF RunOK, Accounted
    <3>8. PlannedWhereNone(s, file', late'[r])
      <4>1. s.plan = run[r].plan \ {a} /\ s.force = run[r].force /\ s.plan \subseteq Agent
        BY <1>t DEF RunState
      <4> HIDE DEF s
      <4> QED BY <1>k, <3>5, <3>6, <4>1 DEF RunOK, PlannedWhereNone
    <3>9. ASSUME NEW q \in Run \ {r} PROVE RunOK(run'[q], file', late'[q])
      <4>1. run'[q] = run[q] /\ run[q] \in RunState
        BY <1>t, <2>2 DEF Becomes
      <4>2. RunOK(run[q], file, late[q])
        BY <1>k
      <4> QED BY <3>5, <3>6, <4>1, <4>2
              DEF RunState, RunOK, Accounted, PlannedWhereNone
    <3>10. RunOK(run'[r], file', late'[r])
      BY <3>1, <3>4, <3>7, <3>8 DEF RunOK
    <3> QED BY <3>3, <3>9, <3>10 DEF IInv
  <2> QED BY <1>8, <2>1, <2>2 DEF Replace, First
<1>9. ASSUME NEW r \in Run, Kill(r) PROVE IInv'
  <2>1. [run[r] EXCEPT !.call = "killed"]
          = [run[r] EXCEPT !.call = "killed", !.temporary = run[r].temporary]
    BY <1>t DEF RunState
  <2> QED BY <1>9, <2>1, EndInv DEF Kill
<1>10. ASSUME NEW a \in Agent, UserEdits(a) PROVE IInv'
  <2>1. PICK text \in Edit \cup {None, Dir} : file' = [file EXCEPT ![a] = text]
    BY <1>10 DEF UserEdits
  <2>2. WholeFiles'
    BY <1>t, <1>10, <2>1 DEF UserEdits, WholeFiles, RunState
  <2>3. ASSUME NEW q \in Run PROVE RunOK(run'[q], file', late'[q])
    <3>1. run'[q] = run[q] /\ run[q] \in RunState /\ late'[q] = late[q] \cup {a}
      BY <1>t, <1>10 DEF UserEdits
    <3>2. \A b \in Agent \ {a} : file'[b] = file[b]
      BY <1>t, <2>1
    <3>3. RunOK(run[q], file, late[q])
      BY <1>k
    <3> QED BY <3>1, <3>2, <3>3 DEF RunState, RunOK, Accounted, PlannedWhereNone
  <2> QED BY <2>2, <2>3 DEF IInv
<1>11. CASE UNCHANGED vars
  BY <1>11 DEF vars, IInv, WholeFiles
<1> QED
  BY <1>1, <1>4, <1>5, <1>6, <1>7, <1>8, <1>9, <1>10, <1>11 DEF Next, Step

LEMMA Invariant == Spec => []IInv
  BY InitInv, StepInv, PTL DEF Spec

-----------------------------------------------------------------------------
(* The theorems *)

\* No failure and no kill, at whatever moment, leaves a skill file half-written.
THEOREM SkillFilesWhole == Spec => []WholeFiles
<1>1. IInv => WholeFiles
  BY DEF IInv
<1> QED BY <1>1, Invariant, PTL

\* A run that refuses has written nothing.
THEOREM RefusalsWhole == Spec => []RefusedInWhole
<1>1. IInv => RefusedInWhole
  BY DEF IInv, RunOK, PlannedFirst, RefusedInWhole, At
<1> QED BY <1>1, Invariant, PTL

\* A run that reports success has installed every selected skill.
THEOREM SuccessInstalls == Spec => []DoneIsInstalled
<1>1. IInv => DoneIsInstalled
  BY DEF IInv, RunOK, PlannedFirst, Accounted, DoneIsInstalled, Writing, At
<1> QED BY <1>1, Invariant, PTL

\* Without --force a run replaces only what came after it had looked.
THEOREM EditsSeenAreKept == Spec => OnlyLateEditsLost
<1>1. ASSUME IInv, [Next]_vars, NEW r \in Run, NEW a \in Agent,
             Replaces(r, a), ~run[r].force
      PROVE  file[a] = None \/ a \in late[r]
  <2>t. run \in [Run -> RunState] /\ RunOK(run[r], file, late[r])
    BY <1>1 DEF IInv, WholeFiles, RunState
  <2>1. a \in run'[r].wrote /\ a \notin run[r].wrote
    BY <1>1 DEF Replaces
  <2>2. ASSUME NEW q \in Run, NEW s, Becomes(q, s), s.wrote \subseteq run[q].wrote
        PROVE  FALSE
    <3>1. run'[r] = IF r = q THEN s ELSE run[r]
      BY <2>t, <2>2 DEF Becomes
    <3> QED BY <2>1, <2>2, <3>1
  <2>3. ASSUME NEW q \in Run, NEW how, Ends(q, how) PROVE FALSE
    <3>1. [run[q] EXCEPT !.call = how, !.temporary = None].wrote = run[q].wrote
      BY <2>t DEF RunState
    <3> QED BY <2>2, <2>3, <3>1 DEF Ends
  <2>4. ASSUME NEW q \in Run, NEW call, Becomes(q, [run[q] EXCEPT !.call = call]) PROVE FALSE
    <3>1. [run[q] EXCEPT !.call = call].wrote = run[q].wrote
      BY <2>t DEF RunState
    <3> QED BY <2>2, <2>4, <3>1
  <2>5. ASSUME NEW q \in Run, NEW b, NEW changed, Looked(q, b, changed) PROVE FALSE
    <3> DEFINE s == [run[q] EXCEPT !.todo = @ \ {b},
                                   !.plan = IF changed THEN @ \cup {b} ELSE @,
                                   !.call = IF run[q].todo = {b} THEN "next" ELSE "exists"]
    <3>1. s.wrote = run[q].wrote
      BY <2>t DEF RunState
    <3> QED BY <2>2, <2>5, <3>1 DEF Looked
  <2>6. ASSUME NEW q \in Run, Begin(q) PROVE FALSE
    <3>1. ASSUME NEW force, NEW text, NEW selected,
                 Becomes(q, [NewRun EXCEPT !.call = "exists", !.force = force,
                                           !.text = text, !.selected = selected,
                                           !.todo = selected])
          PROVE  FALSE
      <4>1. [NewRun EXCEPT !.call = "exists", !.force = force, !.text = text,
                           !.selected = selected, !.todo = selected].wrote = {}
        BY DEF NewRun
      <4> QED BY <2>2, <3>1, <4>1
    <3> QED BY <2>3, <2>6, <3>1 DEF Begin
  <2>7. ASSUME NEW q \in Run, Exists(q) \/ IsFile(q) \/ ReadText(q) PROVE FALSE
    BY <2>3, <2>4, <2>5, <2>7 DEF Exists, IsFile, ReadText
  <2>8. ASSUME NEW q \in Run, NextPlan(q) \/ Open(q) \/ Write(q) \/ Kill(q) PROVE FALSE
    <3>1. ASSUME NEW call, NEW t,
                 Becomes(q, [run[q] EXCEPT !.call = call, !.temporary = t])
          PROVE  FALSE
      <4>1. [run[q] EXCEPT !.call = call, !.temporary = t].wrote = run[q].wrote
        BY <2>t DEF RunState
      <4> QED BY <2>2, <3>1, <4>1
    <3> QED BY <2>3, <2>4, <2>8, <3>1 DEF NextPlan, Open, Write, Kill
  <2>9. PICK q \in Run : Replace(q)
    BY <1>1, <2>1, <2>6, <2>7, <2>8 DEF Next, Step, UserEdits, vars
  <2>10. a \in run[r].plan
    <3>1. PICK b \in Agent :
             /\ b \in run[q].plan
             /\ Becomes(q, [run[q] EXCEPT !.call = "next", !.plan = @ \ {b},
                                          !.temporary = None, !.wrote = @ \cup {b}])
      BY <2>3, <2>9 DEF Replace, First
    <3>2. run'[q].wrote = run[q].wrote \cup {b} /\ (r # q => run'[r] = run[r])
      BY <2>t, <3>1 DEF Becomes, RunState
    <3> QED BY <2>1, <3>1, <3>2
  <2> QED BY <1>1, <2>t, <2>10 DEF RunOK, PlannedWhereNone
<1>2. IInv /\ [Next]_vars => [\A r \in Run : \A a \in Agent :
          Replaces(r, a) /\ ~run[r].force => file[a] = None \/ a \in late[r]]_vars
  BY <1>1
<1> QED BY <1>2, Invariant, PTL DEF Spec, OnlyLateEditsLost
=============================================================================

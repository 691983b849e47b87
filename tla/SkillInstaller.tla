--------------------------- MODULE SkillInstaller ---------------------------
(***************************************************************************)
(* src/gpuctl/skill_installer.py: "gpuctl install-skill" looks at the      *)
(* skill file of every selected agent, refuses if one was modified, and    *)
(* then writes those that differ, each through a temporary file.  The user *)
(* may change the files meanwhile, other runs may be at work on them, any  *)
(* system call may fail, and a run may be killed.                          *)
(*                                                                         *)
(* The name of a temporary file holds the process id, so that no two runs  *)
(* share one; nobody reads what a killed run left in its own.              *)
(***************************************************************************)
EXTENDS Naturals

CONSTANTS
    Run,        \* the runs of install-skill
    Agents,     \* how many agents there are
    Package,    \* the texts that versions of gpuctl have in their wheels
    Edit,       \* the texts a user may write
    None,       \* no file
    Dir,        \* something that is not a file
    Torn        \* a part of a text

ASSUME SkillAssumption ==
    /\ Agents \in Nat \ {0}
    /\ Package \cap Edit = {}
    /\ {None, Dir, Torn} \cap (Package \cup Edit) = {}
    /\ None # Dir /\ None # Torn /\ Dir # Torn

\* _AGENT_DIRECTORIES, in its order.
Agent == 1..Agents

VARIABLES
    file,       \* file[a]: what agent a's SKILL.md holds
    run,        \* run[r]: the state of a run
    late        \* late[r], history: what others changed after r looked or wrote

vars == <<file, run, late>>

\* todo: the agents to look at; plan: those whose file is to be written.
\* wrote, history: those whose file it has written.
NewRun == [call |-> "idle", force |-> FALSE, text |-> None, selected |-> {},
           todo |-> {}, plan |-> {}, temporary |-> None, wrote |-> {}]

Init ==
    /\ file \in [Agent -> {None, Dir} \cup Package \cup Edit]
    /\ run = [r \in Run |-> NewRun]
    /\ late = [r \in Run |-> {}]

At(r, call) == run[r].call = call
Becomes(r, s) == run' = [run EXCEPT ![r] = s]

\* The agent whose turn it is, in the order of the table.
First(a, S) == a \in S /\ \A b \in S : a <= b

\* SkillInstallError, or an exception main catches as well (client.py:774-784).
\* The temporary file goes in the finally clause.
Ends(r, how) == Becomes(r, [run[r] EXCEPT !.call = how, !.temporary = None])

\* r has changed the file of a, which the others may have looked at.
Changes(r, a) == late' = [q \in Run |-> IF q = r THEN late[q] \ {a}
                                                ELSE late[q] \cup {a}]

\* The arguments and the text of the package, which may be missing.
Begin(r) ==
    /\ At(r, "idle")
    /\ \/ \E force \in BOOLEAN, text \in Package,
             selected \in {Agent} \cup {{a} : a \in Agent} :
             Becomes(r, [NewRun EXCEPT !.call = "exists", !.force = force,
                                       !.text = text, !.selected = selected,
                                       !.todo = selected])
       \/ Ends(r, "failed")
    /\ UNCHANGED <<file, late>>

-----------------------------------------------------------------------------
(* The first loop: what is to be written *)

\* a is planned, and the next agent looked at; after the last one, the writing.
Looked(r, a, changed) ==
    Becomes(r, [run[r] EXCEPT !.todo = @ \ {a},
                              !.plan = IF changed THEN @ \cup {a} ELSE @,
                              !.call = IF run[r].todo = {a} THEN "next" ELSE "exists"])

Exists(r) ==
    /\ At(r, "exists")
    /\ \E a \in Agent :
          /\ First(a, run[r].todo)
          /\ IF file[a] = None THEN Looked(r, a, TRUE)
                               ELSE Becomes(r, [run[r] EXCEPT !.call = "is_file"])
          /\ late' = [late EXCEPT ![r] = @ \ {a}]
    /\ UNCHANGED file

IsFile(r) ==
    /\ At(r, "is_file")
    /\ \E a \in Agent :
          /\ First(a, run[r].todo)
          /\ IF file[a] \in {None, Dir}
             THEN Ends(r, "failed")
             ELSE Becomes(r, [run[r] EXCEPT !.call = "read_text"])
    /\ UNCHANGED <<file, late>>

\* Mutant of ReadText: a modified file is overwritten without --force.
ReadTextForces(r) ==
    /\ At(r, "read_text")
    /\ \E a \in Agent :
          /\ First(a, run[r].todo)
          /\ Looked(r, a, file[a] # run[r].text)
          /\ late' = [late EXCEPT ![r] = @ \ {a}]
    /\ UNCHANGED file

ReadText(r) ==
    /\ At(r, "read_text")
    /\ \E a \in Agent :
          /\ First(a, run[r].todo)
          /\ \/ file[a] = run[r].text /\ Looked(r, a, FALSE)
             \/ /\ file[a] \notin {run[r].text, None, Dir}
                /\ IF run[r].force THEN Looked(r, a, TRUE) ELSE Ends(r, "refused")
             \/ Ends(r, "failed")       \* gone by now, unreadable, or not UTF-8
          /\ late' = [late EXCEPT ![r] = @ \ {a}]
    /\ UNCHANGED file

-----------------------------------------------------------------------------
(* The second loop: _write_skill *)

NextPlan(r) ==
    /\ At(r, "next")
    /\ IF run[r].plan = {} THEN Ends(r, "done")
                           ELSE Becomes(r, [run[r] EXCEPT !.call = "open"])
    /\ UNCHANGED <<file, late>>

\* Mutant of Open: the temporary file replaces the destination unfinished.
OpenUnfinished(r) ==
    /\ At(r, "open")
    /\ Becomes(r, [run[r] EXCEPT !.call = "replace", !.temporary = Torn])
    /\ UNCHANGED <<file, late>>

\* mkdir, and the temporary file is created or truncated.
Open(r) ==
    /\ At(r, "open")
    /\ \/ Becomes(r, [run[r] EXCEPT !.call = "write", !.temporary = Torn])
       \/ Ends(r, "failed")
    /\ UNCHANGED <<file, late>>

\* write_text: a full disk leaves a part of the text.
Write(r) ==
    /\ At(r, "write")
    /\ \/ Becomes(r, [run[r] EXCEPT !.call = "replace", !.temporary = run[r].text])
       \/ Ends(r, "failed")
    /\ UNCHANGED <<file, late>>

\* Mutants of Replace: the destination is looked at again; what cannot be
\* written is passed over.
ReplaceLooksAgain(r) ==
    /\ At(r, "replace")
    /\ \E a \in Agent :
          /\ First(a, run[r].plan)
          /\ IF file[a] \in Edit /\ ~run[r].force
             THEN Ends(r, "refused") /\ UNCHANGED <<file, late>>
             ELSE /\ file' = [file EXCEPT ![a] = run[r].temporary]
                  /\ Changes(r, a)
                  /\ Becomes(r, [run[r] EXCEPT !.call = "next", !.plan = @ \ {a},
                                               !.temporary = None,
                                               !.wrote = @ \cup {a}])
ReplacePassesOver(r) ==
    /\ At(r, "replace")
    /\ \E a \in Agent :
          /\ First(a, run[r].plan)
          /\ Becomes(r, [run[r] EXCEPT !.call = "next", !.plan = @ \ {a},
                                       !.temporary = None])
          /\ UNCHANGED <<file, late>>

\* os.replace, which fails when the destination has become a directory.
Replace(r) ==
    /\ At(r, "replace")
    /\ \E a \in Agent :
          /\ First(a, run[r].plan)
          /\ \/ /\ file[a] # Dir
                /\ file' = [file EXCEPT ![a] = run[r].temporary]
                /\ Changes(r, a)
                /\ Becomes(r, [run[r] EXCEPT !.call = "next", !.plan = @ \ {a},
                                             !.temporary = None,
                                             !.wrote = @ \cup {a}])
             \/ Ends(r, "failed") /\ UNCHANGED <<file, late>>

-----------------------------------------------------------------------------
(* The surroundings *)

Kill(r) ==
    /\ run[r].call \notin {"idle", "done", "refused", "failed", "killed"}
    /\ Becomes(r, [run[r] EXCEPT !.call = "killed"])
    /\ UNCHANGED <<file, late>>

\* The user writes, removes or makes way for a file.
UserEdits(a) ==
    /\ \E text \in Edit \cup {None, Dir} : file' = [file EXCEPT ![a] = text]
    /\ late' = [r \in Run |-> late[r] \cup {a}]
    /\ UNCHANGED run

Step(r) ==
    \/ Exists(r) \/ IsFile(r) \/ ReadText(r)
    \/ NextPlan(r) \/ Open(r) \/ Write(r) \/ Replace(r)

Next ==
    \/ \E r \in Run : Begin(r) \/ Step(r) \/ Kill(r)
    \/ \E a \in Agent : UserEdits(a)

Spec == Init /\ [][Next]_vars

-----------------------------------------------------------------------------
(* Correctness. *)

Calls == {"idle", "exists", "is_file", "read_text", "next", "open", "write",
          "replace", "done", "refused", "failed", "killed"}

\* Type correctness, with what makes every retry possible: a skill file is never
\* left half-written, by whatever failure or kill, so that the next run finds it
\* missing, equal, or truly modified, and does not take its own remains for an
\* edit of the user's.
WholeFiles ==
    /\ file \in [Agent -> {None, Dir} \cup Package \cup Edit]
    /\ run \in [Run ->
          [call : Calls, force : BOOLEAN, text : Package \cup {None},
           selected : SUBSET Agent, todo : SUBSET Agent, plan : SUBSET Agent,
           temporary : Package \cup {None, Torn}, wrote : SUBSET Agent]]
    /\ late \in [Run -> SUBSET Agent]

\* A refusal is whole: a run that refuses has not written the skill of another
\* agent before.
RefusedInWhole == \A r \in Run : At(r, "refused") => run[r].wrote = {}

\* A success is what it says: each selected file holds the text of the package,
\* unless somebody else has changed it since the run looked at it or wrote it.
DoneIsInstalled ==
    \A r \in Run : At(r, "done") =>
        \A a \in run[r].selected \ late[r] : file[a] = run[r].text

\* Without --force a run replaces nothing that was there when it looked, neither
\* a user's text nor another version's; only what came later.
Replaces(r, a) == a \in run'[r].wrote \ run[r].wrote
OnlyLateEditsLost ==
    [][\A r \in Run : \A a \in Agent :
          Replaces(r, a) /\ ~run[r].force => file[a] = None \/ a \in late[r]]_vars

\* README.md:195: "The installer will not overwrite a modified skill."
ModifiedKept ==
    [][\A r \in Run : \A a \in Agent :
          Replaces(r, a) /\ ~run[r].force => file[a] \notin Edit]_vars
=============================================================================

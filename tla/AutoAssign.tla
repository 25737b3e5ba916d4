------------------------------ MODULE AutoAssign ------------------------------
(***************************************************************************)
(* Automatic assignment of sessions to projects                            *)
(* (dashboard/src-tauri/src/commands/assignment_model): the auto-safe run  *)
(* and its rollback, the deterministic rule, the training of the model and *)
(* its resets, between the user's own assignments.  The sessions belong to *)
(* one application; one file row without a known path overlaps all of      *)
(* them, and each may have a file below the folder of a project.           *)
(***************************************************************************)
EXTENDS Naturals, Sequences, FiniteSets

CONSTANTS
  AsgSess, AsgProj, Unset,
  PathOf,        \* the project whose folder holds the session's own file, or Unset
  RULE_MIN,      \* sessions an application needs for the deterministic rule
  MaxDay, MaxAsg   \* bounds: of the days, and of acts, runs, trainings and mishaps in all

ASSUME AssignAssumption ==
  /\ IsFiniteSet(AsgSess) /\ Unset \notin AsgProj
  /\ PathOf \in [AsgSess -> AsgProj \cup {Unset}]
  /\ MaxDay \in Nat /\ MaxAsg \in Nat

VARIABLES
  label,      \* sessions.project_id
  origin,     \* source of the session's latest row in assignment_feedback
  chosen,     \* project of the session's manual override
  shared,     \* project_id of the file row that overlaps every session
  live,       \* projects neither frozen nor excluded
  runs,       \* assignment_auto_runs with their items
  auto,       \* the run in progress
  lessons,    \* feedback of the user: the project and the day of created_at
  learned,    \* projects with weights in the assignment_model_* tables
  trainer,    \* the training in progress, the flag is_training and last_train_at
  noted       \* history: acts counted for the bounds, and what went wrong

asgVars == <<label, origin, chosen, shared, live, runs, auto, lessons, learned, trainer, noted>>

MaybeProj == AsgProj \cup {Unset}
Never == MaxDay + 1      \* no last_train_at

Date == 0..MaxDay
Count == 0..Cardinality(AsgSess)
AutoRun == [assigned: Count, items: SUBSET (AsgSess \X AsgProj), rolled: BOOLEAN]
AutoState == [pc: {"off", "batch", "count"}, todo: SUBSET AsgSess, count: Count]
Lesson == [to: AsgProj, day: Date]
Trainer == [pc: {"off", "full", "incremental", "record"}, flag: BOOLEAN, last: Date \cup {Never}, day: Date]
Noted == [acts: Nat, torn: SUBSET Nat, taught: SUBSET AsgProj, wiped: BOOLEAN]

LabelsOK ==
  /\ label \in [AsgSess -> MaybeProj] /\ chosen \in [AsgSess -> MaybeProj]
  /\ origin \in [AsgSess -> {"none", "manual", "auto_accept", "deterministic_rule", "auto_reject"}]
  /\ shared \in MaybeProj /\ live \subseteq AsgProj
RunsOK == runs \in Seq(AutoRun) /\ auto \in AutoState
TrainingOK == lessons \in Seq(Lesson) /\ trainer \in Trainer /\ learned \subseteq AsgProj
NotedOK == noted \in Noted /\ noted.acts <= MaxAsg

AsgTypeOK == LabelsOK /\ RunsOK /\ TrainingOK /\ NotedOK

AsgInit ==
  /\ label = [s \in AsgSess |-> Unset] /\ chosen = label
  /\ origin = [s \in AsgSess |-> "none"]
  /\ shared = Unset /\ live = AsgProj /\ learned = {} /\ runs = <<>> /\ lessons = <<>>
  /\ auto = [pc |-> "off", todo |-> {}, count |-> 0]
  /\ trainer = [pc |-> "off", flag |-> FALSE, last |-> Never, day |-> 0]
  /\ noted = [acts |-> 0, torn |-> {}, taught |-> {}, wiped |-> FALSE]

-----------------------------------------------------------------------------
(* The user. *)

Act == noted.acts < MaxAsg
Counted == [noted EXCEPT !.acts = @ + 1]

\* assign_session_to_project
AssignByHand(s, p) ==
  /\ Act
  /\ label' = [label EXCEPT ![s] = p] /\ chosen' = [chosen EXCEPT ![s] = p]
  /\ origin' = [origin EXCEPT ![s] = "manual"]
  /\ shared' = p
  /\ lessons' = IF p = Unset THEN lessons
                ELSE Append(lessons, [to |-> p, day |-> trainer.day])
  /\ noted' = [Counted EXCEPT !.taught = @ \cup ({p} \ {Unset})]
  /\ UNCHANGED <<live, runs, auto, learned, trainer>>

\* freeze_project, unfreeze_project, exclude_project, restore_project
SetActive(p) ==
  /\ Act /\ live' = IF p \in live THEN live \ {p} ELSE live \cup {p}
  /\ noted' = Counted
  /\ UNCHANGED <<label, origin, chosen, shared, runs, auto, lessons, learned, trainer>>

-----------------------------------------------------------------------------
(* Suggestions.  A path in a project's folder scores 1.5, above the cap of  *)
(* all the memory layers; a stored project of a file scores 0.8, and with   *)
(* memory it may win or lose.  Whether the best candidate meets the         *)
(* thresholds depends on weights that are not modelled.                     *)

check_manual_override(s) == chosen[s] \in live

\* Overlapping files by their path (build_session_context), and by their stored project.
PathFact(s) == {PathOf[s]} \cap live
StoredFact == {shared} \cap live
Remembered == learned \cap live

Suggestions(s) ==
  IF PathFact(s) # {} /\ StoredFact \subseteq PathFact(s) THEN PathFact(s)
  ELSE PathFact(s) \cup StoredFact \cup Remembered

\* Only a file row that has no project yet takes the session's.
FilledIn(p) == IF shared = Unset THEN p ELSE shared

StartRun ==
  /\ auto.pc = "off" /\ Act
  /\ runs' = Append(runs, [assigned |-> 0, items |-> {}, rolled |-> FALSE])
  /\ auto' = [pc |-> "batch", todo |-> {s \in AsgSess : label[s] = Unset}, count |-> 0]
  /\ noted' = Counted
  /\ UNCHANGED <<label, origin, chosen, shared, live, lessons, learned, trainer>>

\* The sessions are taken in one order; a batch is one transaction, and holds one session.
NextIn(todo) == CHOOSE s \in todo : TRUE

SkipBatch(s) ==
  /\ auto.pc = "batch" /\ auto.todo # {} /\ s = NextIn(auto.todo)
  /\ auto' = [auto EXCEPT !.todo = @ \ {s}]
  /\ UNCHANGED <<label, origin, chosen, shared, live, runs, lessons, learned, trainer, noted>>

AssignBatch(s) ==
  /\ auto.pc = "batch" /\ auto.todo # {} /\ s = NextIn(auto.todo)
  /\ label[s] = Unset /\ ~check_manual_override(s)
  /\ \E p \in Suggestions(s) :
       /\ label' = [label EXCEPT ![s] = p] /\ shared' = FilledIn(p)
       /\ runs' = [runs EXCEPT ![Len(runs)].items = @ \cup {<<s, p>>}]
  /\ origin' = [origin EXCEPT ![s] = "auto_accept"]
  /\ auto' = [pc |-> "count", todo |-> auto.todo \ {s}, count |-> auto.count + 1]
  /\ noted' = IF runs[Len(runs)].rolled THEN [noted EXCEPT !.torn = @ \cup {Len(runs)}] ELSE noted
  /\ UNCHANGED <<chosen, live, lessons, learned, trainer>>

\* Mutant: the counts are written when the run ends, not after every batch.
WrittenCountLate == runs[Len(runs)].assigned
WrittenCount == auto.count

\* The counts of the run are written by a statement after the batch's transaction.
CountBatch ==
  /\ auto.pc = "count"
  /\ runs' = [runs EXCEPT ![Len(runs)].assigned = WrittenCount]
  /\ auto' = [auto EXCEPT !.pc = "batch"]
  /\ UNCHANGED <<label, origin, chosen, shared, live, lessons, learned, trainer, noted>>

FinishRun ==
  /\ auto.pc = "batch" /\ auto.todo = {}
  /\ runs' = [runs EXCEPT ![Len(runs)].assigned = auto.count]
  /\ auto' = [auto EXCEPT !.pc = "off", !.count = 0]
  /\ UNCHANGED <<label, origin, chosen, shared, live, lessons, learned, trainer, noted>>

\* A batch that fails is rolled back; the counts already include what it had assigned.
FailBatch(s) ==
  /\ auto.pc = "batch" /\ auto.todo # {} /\ s = NextIn(auto.todo) /\ Act
  /\ runs' = [runs EXCEPT ![Len(runs)].assigned = auto.count + 1]
  /\ auto' = [pc |-> "off", todo |-> {}, count |-> 0]
  /\ noted' = Counted
  /\ UNCHANGED <<label, origin, chosen, shared, live, lessons, learned, trainer>>

\* The application ends; after a commit the run's counts are those of the batch before.
CrashInRun ==
  /\ auto.pc # "off" /\ Act
  /\ auto' = [pc |-> "off", todo |-> {}, count |-> 0]
  /\ noted' = [Counted EXCEPT !.torn = IF auto.pc = "count" THEN @ \cup {Len(runs)} ELSE @]
  /\ UNCHANGED <<label, origin, chosen, shared, live, runs, lessons, learned, trainer>>

Undoable == {i \in DOMAIN runs : runs[i].assigned > 0 /\ ~runs[i].rolled}

\* rollback_sync: the latest run that counts an assignment and was not rolled back.
RolledRun == CHOOSE i \in Undoable : \A j \in Undoable : j <= i
\* Mutant: an item is reverted without comparing the session's project.
RevertedBlindly == {s \in AsgSess : \E p \in AsgProj : <<s, p>> \in runs[RolledRun].items}
Reverted == {s \in AsgSess : <<s, label[s]>> \in runs[RolledRun].items}

rollback_run ==
  /\ Undoable # {}
  /\ label' = [s \in AsgSess |-> IF s \in Reverted THEN Unset ELSE label[s]]
  /\ origin' = [s \in AsgSess |-> IF s \in Reverted THEN "auto_reject" ELSE origin[s]]
  /\ shared' = IF \E s \in Reverted : label[s] = shared THEN Unset ELSE shared
  /\ runs' = [runs EXCEPT ![RolledRun].rolled = TRUE]
  /\ noted' = IF auto.pc = "count" /\ RolledRun = Len(runs)
             THEN [noted EXCEPT !.torn = @ \cup {RolledRun}] ELSE noted
  /\ UNCHANGED <<chosen, live, auto, lessons, learned, trainer>>

-----------------------------------------------------------------------------
(* deterministic_sync: all sessions of the application that have a project  *)
(* have the same one.                                                       *)

RuleProjects == {p \in live : /\ \A s \in AsgSess : label[s] \in {p, Unset}
                              /\ Cardinality({s \in AsgSess : label[s] = p}) >= RULE_MIN}
Unlabelled == {s \in AsgSess : label[s] = Unset}

Rule ==
  \E p \in RuleProjects :
    /\ Unlabelled # {}
    /\ label' = [s \in AsgSess |-> p] /\ shared' = FilledIn(p)
    /\ origin' = [s \in AsgSess |-> IF s \in Unlabelled THEN "deterministic_rule" ELSE origin[s]]
    /\ UNCHANGED <<chosen, live, runs, auto, lessons, learned, trainer, noted>>

-----------------------------------------------------------------------------
(* Training. *)

StartTraining(full) ==
  /\ trainer.pc = "off" /\ ~trainer.flag /\ Act
  /\ lessons # <<>> \/ \E s \in AsgSess : origin[s] # "none"
  /\ trainer' = [trainer EXCEPT !.flag = TRUE,
                   !.pc = IF full \/ trainer.last = Never THEN "full" ELSE "incremental"]
  /\ noted' = Counted
  /\ UNCHANGED <<label, origin, chosen, shared, live, runs, auto, lessons, learned>>

\* Sessions whose latest feedback is not the model's own teach, and so does all feedback.
\* Mutant: the rule's labels teach.
UserLabelOrRule(s) == label[s] # Unset /\ origin[s] # "auto_accept"
UserLabel(s) == label[s] # Unset /\ origin[s] \notin {"auto_accept", "deterministic_rule"}
Lessons(days) == {lessons[i].to : i \in {j \in DOMAIN lessons : lessons[j].day \in days}}

retrain_model == {label[s] : s \in {t \in AsgSess : UserLabel(t)}} \cup Lessons(0..MaxDay)

\* created_at holds "date time" and last_train_at "dateTtime": compared as strings, the
\* feedback of the day of the last training is never the later one.
retrain_model_incremental == learned \cup Lessons((trainer.last + 1)..MaxDay)

Train ==
  /\ trainer.pc \in {"full", "incremental"}
  /\ learned' = IF trainer.pc = "full" THEN retrain_model ELSE retrain_model_incremental
  /\ trainer' = [trainer EXCEPT !.pc = "record"]
  /\ UNCHANGED <<label, origin, chosen, shared, live, runs, auto, lessons, noted>>

\* record_training_success after the commit; the guard is dropped with it, and also when
\* the training or the record fails.
EndTraining(done) ==
  /\ trainer.pc # "off" /\ (done => trainer.pc = "record")
  /\ done \/ Act
  /\ trainer' = [trainer EXCEPT !.pc = "off", !.flag = FALSE,
                                !.last = IF done THEN trainer.day ELSE @]
  /\ noted' = IF done THEN noted ELSE Counted
  /\ UNCHANGED <<label, origin, chosen, shared, live, runs, auto, lessons, learned>>

\* Nothing but a reset clears is_training after the application has ended.
CrashInTraining ==
  /\ trainer.pc # "off" /\ Act
  /\ trainer' = [trainer EXCEPT !.pc = "off"]
  /\ noted' = Counted
  /\ UNCHANGED <<label, origin, chosen, shared, live, runs, auto, lessons, learned>>

ResetWeights ==
  /\ Act /\ learned' = {} /\ trainer' = [trainer EXCEPT !.flag = FALSE, !.last = Never]
  /\ noted' = Counted
  /\ UNCHANGED <<label, origin, chosen, shared, live, runs, auto, lessons>>

\* The feedback goes and the labels stay, so that those the model gave look like the user's.
ResetFull ==
  /\ Act /\ auto.pc = "off"
  /\ learned' = {} /\ trainer' = [trainer EXCEPT !.flag = FALSE, !.last = Never]
  /\ lessons' = <<>> /\ origin' = [s \in AsgSess |-> "none"] /\ runs' = <<>>
  /\ noted' = [Counted EXCEPT !.wiped = TRUE, !.torn = {}]
  /\ UNCHANGED <<label, chosen, shared, live, auto>>

NextDay ==
  /\ trainer.day < MaxDay /\ trainer' = [trainer EXCEPT !.day = @ + 1]
  /\ UNCHANGED <<label, origin, chosen, shared, live, runs, auto, lessons, learned, noted>>

AsgNext ==
  \/ \E s \in AsgSess, p \in MaybeProj : AssignByHand(s, p)
  \/ \E p \in AsgProj : SetActive(p)
  \/ StartRun
  \/ \E s \in AsgSess : SkipBatch(s) \/ AssignBatch(s) \/ FailBatch(s)
  \/ CountBatch \/ FinishRun \/ CrashInRun
  \/ rollback_run \/ Rule
  \/ \E full \in BOOLEAN : StartTraining(full)
  \/ Train
  \/ \E done \in BOOLEAN : EndTraining(done)
  \/ CrashInTraining \/ ResetWeights \/ ResetFull \/ NextDay

AsgSpec == AsgInit /\ [][AsgNext]_asgVars

-----------------------------------------------------------------------------
(* Properties. *)

\* A step that is not the user's leaves his choices for active projects as they are,
\* unless it rolls back a run that had given the session the same project before.
KeepsChoices ==
  \A s \in AsgSess :
    /\ noted'.acts = noted.acts /\ chosen[s] \in live /\ label[s] = chosen[s] /\ label'[s] # label[s]
    => \E i \in DOMAIN runs : /\ <<s, label[s]>> \in runs[i].items
                              /\ runs'[i].rolled /\ ~runs[i].rolled

\* What the user assigned by hand, to a project that is still active, no automatic step
\* takes away or changes; the one exception is a rollback of the run that had given the
\* session the same project before the user confirmed it (auto_safe.rs:44).
AutomationKeepsChoices == [][KeepsChoices]_asgVars

\* An assignment made by a run that still stands can be undone: its run is one that a
\* rollback can pick, now or when the counts of the batch are written.  Not so when the
\* application ended between a batch and its counts, or when the run was rolled back while
\* it was under way.
AutoRunsCanBeUndone ==
  \A i \in DOMAIN runs : \A s \in AsgSess :
    /\ <<s, label[s]>> \in runs[i].items /\ origin[s] = "auto_accept"
    => \/ i \in Undoable \/ i \in noted.torn
       \/ i = Len(runs) /\ auto.pc = "count"
       \/ \E j \in i + 1..Len(runs) : <<s, label[s]>> \in runs[j].items

\* The model never learns its own assignments: it has weights only for projects the user
\* gave to a session, until a full reset makes it forget which labels were its own.
LearnsOnlyFromTheUser == noted.wiped \/ learned \subseteq noted.taught
=============================================================================

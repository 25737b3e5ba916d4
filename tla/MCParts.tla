------------------------------- MODULE MCParts -------------------------------
(***************************************************************************)
(* Model checking of the parts that share no variables with the LAN sync:  *)
(* `part' names one of them in the initial state, and only its steps are   *)
(* taken while the variables of the others keep their initial values.      *)
(***************************************************************************)
EXTENDS
  MCTombstoneReplay, Pairing, Tracker, DailyStore, SessionEdits, OnlineSync, Discovery,
  Archive, AutoAssign, ProjectTime, ProjectTree, Clients, WebHost, WebLogin, Database,
  TLC

VARIABLE part

replayVars == <<local, sent, tx, left>>

partsVars ==
  <<part,
    replayVars, pairVars, trkVars, dsVars, sesVars, onVars, discVars, arcVars, asgVars,
    ptVars, treeVars, cliVars, hostVars, webVars, dbVars>>

\* A part that begins in more than one state does so only when it is the one that runs.
ReplayInit ==
  IF part = "replay" THEN Init
  ELSE /\ local = CHOOSE db \in LocalDbs : TRUE
       /\ sent = {} /\ tx = local /\ left = {}

PartsInit ==
  /\ part \in {"replay", "pairing", "tracker", "store", "sessions", "online", "discovery",
      "archive", "assign", "time", "tree", "clients", "webhost", "weblogin", "database"}
  /\ ReplayInit
  /\ PairInit
  /\ TrkInit
  /\ DsInit
  /\ SesInit
  /\ OnInit /\ (part = "online" \/ \A m \in Peers : pv[m].mark = NoMark)
  /\ DiscInit
  /\ ArcInit
  /\ AsgInit
  /\ PtInit /\ (part = "time" \/ worked = [s \in PtSess |-> NoSlice])
  /\ TreeInit
  /\ CliInit
  /\ HostInit
  /\ WebInit
  /\ DbInit /\ (part = "database" \/ backups = {})

PartsNext ==
  \/ /\ part = "replay" /\ Next
     /\ UNCHANGED <<part, pairVars, trkVars, dsVars, sesVars, onVars, discVars, arcVars,
                    asgVars, ptVars, treeVars, cliVars, hostVars, webVars, dbVars>>
  \/ /\ part = "pairing" /\ PairNext
     /\ UNCHANGED <<part, replayVars, trkVars, dsVars, sesVars, onVars, discVars, arcVars,
                    asgVars, ptVars, treeVars, cliVars, hostVars, webVars, dbVars>>
  \/ /\ part = "tracker" /\ TrkNext
     /\ UNCHANGED <<part, replayVars, pairVars, dsVars, sesVars, onVars, discVars, arcVars,
                    asgVars, ptVars, treeVars, cliVars, hostVars, webVars, dbVars>>
  \/ /\ part = "store" /\ DsNext
     /\ UNCHANGED <<part, replayVars, pairVars, trkVars, sesVars, onVars, discVars, arcVars,
                    asgVars, ptVars, treeVars, cliVars, hostVars, webVars, dbVars>>
  \/ /\ part = "sessions" /\ SesNext
     /\ UNCHANGED <<part, replayVars, pairVars, trkVars, dsVars, onVars, discVars, arcVars,
                    asgVars, ptVars, treeVars, cliVars, hostVars, webVars, dbVars>>
  \/ /\ part = "online" /\ OnNext
     /\ UNCHANGED <<part, replayVars, pairVars, trkVars, dsVars, sesVars, discVars, arcVars,
                    asgVars, ptVars, treeVars, cliVars, hostVars, webVars, dbVars>>
  \/ /\ part = "discovery" /\ DiscNext
     /\ UNCHANGED <<part, replayVars, pairVars, trkVars, dsVars, sesVars, onVars, arcVars,
                    asgVars, ptVars, treeVars, cliVars, hostVars, webVars, dbVars>>
  \/ /\ part = "archive" /\ ArcNext
     /\ UNCHANGED <<part, replayVars, pairVars, trkVars, dsVars, sesVars, onVars, discVars,
                    asgVars, ptVars, treeVars, cliVars, hostVars, webVars, dbVars>>
  \/ /\ part = "assign" /\ AsgNext
     /\ UNCHANGED <<part, replayVars, pairVars, trkVars, dsVars, sesVars, onVars, discVars,
                    arcVars, ptVars, treeVars, cliVars, hostVars, webVars, dbVars>>
  \/ /\ part = "time" /\ PtNext
     /\ UNCHANGED <<part, replayVars, pairVars, trkVars, dsVars, sesVars, onVars, discVars,
                    arcVars, asgVars, treeVars, cliVars, hostVars, webVars, dbVars>>
  \/ /\ part = "tree" /\ TreeNext
     /\ UNCHANGED <<part, replayVars, pairVars, trkVars, dsVars, sesVars, onVars, discVars,
                    arcVars, asgVars, ptVars, cliVars, hostVars, webVars, dbVars>>
  \/ /\ part = "clients" /\ CliNext
     /\ UNCHANGED <<part, replayVars, pairVars, trkVars, dsVars, sesVars, onVars, discVars,
                    arcVars, asgVars, ptVars, treeVars, hostVars, webVars, dbVars>>
  \/ /\ part = "webhost" /\ HostNext
     /\ UNCHANGED <<part, replayVars, pairVars, trkVars, dsVars, sesVars, onVars, discVars,
                    arcVars, asgVars, ptVars, treeVars, cliVars, webVars, dbVars>>
  \/ /\ part = "weblogin" /\ WebNext
     /\ UNCHANGED <<part, replayVars, pairVars, trkVars, dsVars, sesVars, onVars, discVars,
                    arcVars, asgVars, ptVars, treeVars, cliVars, hostVars, dbVars>>
  \/ /\ part = "database" /\ DbNext
     /\ UNCHANGED <<part, replayVars, pairVars, trkVars, dsVars, sesVars, onVars, discVars,
                    arcVars, asgVars, ptVars, treeVars, cliVars, hostVars, webVars>>

PartsSpec == PartsInit /\ [][PartsNext]_partsVars

\* The type invariants of the parts: clocks, counters and tables stay in their ranges.
TypesOK ==
  /\ part = "pairing" => PairTypeOK
  /\ part = "tracker" => TrkTypeOK
  /\ part = "store" => DsTypeOK
  /\ part = "sessions" => SesTypeOK
  /\ part = "online" => OnTypeOK
  /\ part = "discovery" => DiscTypeOK
  /\ part = "archive" => ArcTypeOK
  /\ part = "assign" => AsgTypeOK
  /\ part = "time" => PtTypeOK
  /\ part = "tree" => TreeTypeOK
  /\ part = "clients" => CliTypeOK
  /\ part = "webhost" => HostTypeOK
  /\ part = "weblogin" => WebTypeOK
  /\ part = "database" => DbTypeOK

-----------------------------------------------------------------------------
(* Snapshots for the daily store. *)

FileEntry(k, n) == [file |-> k, v |-> n]
AppEntry(t, s, f) == [total |-> t, ses |-> s, files |-> f]

X == CHOOSE x \in DsApps : TRUE
Y == CHOOSE x \in DsApps \ {X} : TRUE
K == CHOOSE k \in DsFiles : TRUE
L == CHOOSE k \in DsFiles \ {K} : TRUE

MCSnapshots ==
  {X :> AppEntry(1, <<1>>, <<FileEntry(K, 1)>>),
   X :> AppEntry(2, <<1, 2>>, <<FileEntry(K, 1), FileEntry(L, 1), FileEntry(K, 2)>>),
   Y :> AppEntry(1, <<1>>, <<>>),
   (X :> AppEntry(1, <<2>>, <<FileEntry(L, 1)>>))
     @@ (Y :> AppEntry(1, <<1>>, <<FileEntry(L, 1), FileEntry(K, 1)>>))}

\* One session has a file in the folder of a project.
MCPathOf ==
  LET first == CHOOSE s \in AsgSess : TRUE
  IN [s \in AsgSess |-> IF s = first THEN CHOOSE p \in AsgProj : TRUE ELSE Unset]

\* Two days, sessions that overlap and one that crosses midnight.
MCLengths == <<4, 4>>
MCSpans == {<<0, 2>>, <<1, 3>>, <<1, 6>>}
MCImported == {<<1, 3>>}
MCManualSpan == <<2, 5>>
MCFileRows == {[proj |-> CHOOSE p \in PtProj : TRUE, from |-> 0, to |-> 2]}

\* Two spellings of one client, and a client that PM groups with it.
MCLower == [c \in Client |-> IF c = "MET" THEN "met" ELSE c]
MCBaseOf == [c \in RawNames |-> "MET"]
=============================================================================

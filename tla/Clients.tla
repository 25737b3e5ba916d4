------------------------------ MODULE Clients ------------------------------
(***************************************************************************)
(* Clients and the projects that name them (commands/clients.rs): the      *)
(* local table, the projects of the PM tool, which is the source of the    *)
(* client names where it is configured, and the views that lay PM's live   *)
(* data over the local links.  Money and contacts are left out.            *)
(***************************************************************************)
EXTENDS Naturals, FiniteSets

CONSTANTS
  CliProj,
  Client,        \* names, of which some differ in case only
  Lower,         \* [Client -> Client]: lower(name)
  RawNames,      \* what PM calls clients: upper case, a subset of Client
  BaseOf,        \* [RawNames -> RawNames]: the name up to the first underscore
  Nothing,
  MaxCliEdits    \* bound: of the changes

\* PM's names are compared in upper case: two of them never differ in case only.
ASSUME ClientAssumption ==
  /\ RawNames \subseteq Client /\ Nothing \notin Client
  /\ \A c, d \in RawNames : Lower[c] = Lower[d] => c = d

VARIABLES
  book,      \* clients: "none", "listed" or "archived" for each name
  link,      \* projects.client_name
  outside,   \* projects that are excluded or merged
  pm,        \* PM's client of the project with the same full name; Nothing: it has none
  loose,     \* links that were typed by hand, or left behind by a sync from PM
  cliEdits

cliVars == <<book, link, outside, pm, loose, cliEdits>>

CliTypeOK ==
  /\ book \in [Client -> {"none", "listed", "archived"}]
  /\ link \in [CliProj -> Client \cup {Nothing}]
  /\ outside \subseteq CliProj /\ loose \subseteq CliProj
  /\ pm \in [CliProj -> RawNames \cup {Nothing}]

CliInit ==
  /\ book = [c \in Client |-> "none"]
  /\ link = [p \in CliProj |-> Nothing]
  /\ outside = {} /\ loose = {} /\ cliEdits = 0
  /\ pm = [p \in CliProj |-> Nothing]

Listed == {c \in Client : book[c] # "none"}
Same(c) == {d \in Client : Lower[d] = Lower[c]}

\* PM's data: raw names, and the groups they are shown under
RawSet == {pm[p] : p \in CliProj} \ {Nothing}
GroupOf(r) == IF BaseOf[r] \in RawSet THEN BaseOf[r] ELSE r
PmGroups == {GroupOf(r) : r \in RawSet}
PmClientOf(p) == IF pm[p] = Nothing THEN Nothing ELSE GroupOf(pm[p])

-----------------------------------------------------------------------------

CliEdited == cliEdits < MaxCliEdits /\ cliEdits' = cliEdits + 1

\* Projects may go to clients by a new name; those that are linked to none are not loose.
Relink(new, free) ==
  link' = new /\ loose' = {p \in free : new[p] # Nothing}

CreateClient(c) ==
  /\ CliEdited /\ Listed \cap Same(c) = {}
  /\ book' = [book EXCEPT ![c] = "listed"]
  /\ UNCHANGED <<link, outside, pm, loose>>

ArchiveClient(c, archived) ==
  /\ CliEdited /\ c \in Listed
  /\ book' = [book EXCEPT ![c] = IF archived THEN "archived" ELSE "listed"]
  /\ book' # book /\ UNCHANGED <<link, outside, pm, loose>>

\* clients_update: the links follow, compared exactly
RenamedLink(c, d) == [p \in CliProj |-> IF link[p] = c THEN d ELSE link[p]]

RenameClient(c, d) ==
  /\ CliEdited /\ c # d /\ c \in Listed
  /\ (Listed \ {c}) \cap Same(d) = {}
  /\ book' = [book EXCEPT ![c] = "none", ![d] = book[c]]
  /\ Relink(RenamedLink(c, d), loose)
  /\ UNCHANGED <<outside, pm>>

\* Mutant: the name is compared exactly while the clients are not.
UnlinkedExactly(c) == [p \in CliProj |-> IF link[p] = c THEN Nothing ELSE link[p]]

\* clients_delete: the projects first, then the client, case ignored for both
Unlinked(c) == [p \in CliProj |-> IF link[p] \in Same(c) THEN Nothing ELSE link[p]]

DeleteClient(c) ==
  /\ CliEdited
  /\ book' = [d \in Client |-> IF d \in Same(c) THEN "none" ELSE book[d]]
  /\ Relink(Unlinked(c), loose)
  /\ <<book, link>>' # <<book, link>> /\ UNCHANGED <<outside, pm>>

\* project_set_client takes any name.
SetClient(p, c) ==
  /\ CliEdited /\ link[p] # c
  /\ Relink([link EXCEPT ![p] = c], IF c \in Listed THEN loose \ {p} ELSE loose \cup {p})
  /\ UNCHANGED <<book, outside, pm>>

\* exclude, restore, merge and unmerge (commands/projects.rs) keep the client.
MoveOutside(p) ==
  /\ CliEdited /\ outside' \in {outside \ {p}, outside \cup {p}} /\ outside' # outside
  /\ UNCHANGED <<book, link, pm, loose>>

\* Somebody works in PM.
PmChanges(p, r) ==
  /\ CliEdited /\ pm[p] # r /\ pm' = [pm EXCEPT ![p] = r]
  /\ UNCHANGED <<book, link, outside, loose>>

-----------------------------------------------------------------------------
(* clients_sync_from_pm is no transaction: the program may end after any    *)
(* of its statements.                                                       *)

PmUpserted == [c \in Client |-> IF c \in PmGroups /\ book[c] = "none" THEN "listed" ELSE book[c]]

\* The projects that are shown lose their client and get PM's.
ResetLink == [p \in CliProj |-> IF p \in outside THEN link[p] ELSE Nothing]
AssignedLink(done) ==
  [p \in CliProj |-> IF p \in done \ outside THEN PmClientOf(p) ELSE ResetLink[p]]

OnlyPm == [c \in Client |-> IF c \in PmGroups THEN PmUpserted[c] ELSE "none"]

\* Projects outside may keep the name of a client that is dropped.
SyncFromPm ==
  /\ CliEdited
  /\ book' = IF PmGroups = {} THEN book ELSE OnlyPm
  /\ Relink(AssignedLink(CliProj), {p \in outside : PmGroups # {} \/ p \in loose})
  /\ UNCHANGED <<outside, pm>>

SyncFromPmCut(done) ==
  /\ CliEdited /\ book' = PmUpserted
  /\ \/ UNCHANGED <<link, loose>>
     \/ Relink(AssignedLink(done), loose \cap outside)
  /\ <<book, link>>' # <<book, link>> /\ UNCHANGED <<outside, pm>>

-----------------------------------------------------------------------------
(* Views: PM's live data is laid over the links. *)

\* Mutant: a name PM knows keeps its spelling.
NormalizedNot(c) == c

Normalized(c) == IF PmGroups \cap Same(c) = {} THEN c ELSE CHOOSE g \in PmGroups \cap Same(c) : TRUE

\* projects_with_client
PanelClient(p) ==
  IF pm[p] # Nothing THEN PmClientOf(p)
  ELSE IF link[p] = Nothing THEN Nothing ELSE Normalized(link[p])

\* get_clients_summary: a project without a local link is left out, whatever PM says.
SummaryClient(p) ==
  IF p \in outside \/ link[p] = Nothing THEN Nothing ELSE PanelClient(p)
SummaryBuckets ==
  (IF PmGroups # {} THEN PmGroups ELSE {c \in Client : book[c] = "listed"})
    \cup ({SummaryClient(p) : p \in CliProj} \ {Nothing})

-----------------------------------------------------------------------------

CliNext ==
  \/ \E c \in Client : CreateClient(c) \/ DeleteClient(c)
       \/ \E archived \in BOOLEAN : ArchiveClient(c, archived)
       \/ \E d \in Client : RenameClient(c, d)
       \/ \E p \in CliProj : SetClient(p, c)
  \/ \E p \in CliProj : MoveOutside(p) \/ SetClient(p, Nothing)
       \/ \E r \in RawNames \cup {Nothing} : PmChanges(p, r)
  \/ SyncFromPm \/ \E done \in SUBSET CliProj : SyncFromPmCut(done)

CliSpec == CliInit /\ [][CliNext]_cliVars

-----------------------------------------------------------------------------

\* No project is left with a client that is gone (clients.rs:318), by renaming,
\* deleting, or a sync that stops half-way: a link that names no client was typed
\* by hand or belongs to a project that was excluded when PM dropped the client.
\* And the summary has one line for each client of PM, however projects spell it.
ClientsHoldTogether ==
  /\ \A p \in CliProj : link[p] \in Listed \cup {Nothing} \/ p \in loose
  /\ \A c \in SummaryBuckets, g \in PmGroups : c \in Same(g) => c = g
=============================================================================

----------------------------- MODULE Directory -----------------------------
(***************************************************************************)
(* DepartmentsService, CompanyService, BranchService and                   *)
(* DesignationsService: four tables of named rows, which differ in the     *)
(* check of a new name.  Rows are removed softly and never reused.         *)
(***************************************************************************)
EXTENDS ServiceCalls

CONSTANTS
    Entries,    \* BOUND: ids of rows ever created
    Titles

VARIABLES
    directory,  \* the row of an id, or Null
    renamed,    \* HISTORY: the names given by an update
    raced       \* HISTORY: the names two requests created at the same time

directoryTables == <<directory, renamed, raced>>

Kinds == {"department", "company", "branch", "designation"}

\* The company of a branch is the id of a company.
DirectoryRows ==
    [kind: Kinds, name: Titles, company: Entries \cup {Null}, removed: BOOLEAN]

ASSUME DirectoryAssumption ==
    /\ Titles # {} /\ Entries # {}
    /\ Null \notin DirectoryRows

\* Inputs of the create requests.
NewEntries ==
    [kind: Kinds \ {"branch"}, name: Titles, company: {Null}, removed: {FALSE}]
        \cup [kind: {"branch"}, name: Titles, company: Entries, removed: {FALSE}]

DirectoryOps ==
    [pc: {"entry.save"}, row: DirectoryRows]
        \cup [pc: {"entry.update"}, id: Entries, row: DirectoryRows]

DirectoryTypeOK ==
    /\ directory \in [Entries -> DirectoryRows \cup {Null}]
    /\ renamed \subseteq Titles /\ raced \subseteq Titles

\* One department was created before.
DirectoryInit ==
    /\ directory = FirstRow(Entries,
         [kind |-> "department", name |-> CHOOSE name \in Titles: TRUE, company |-> Null,
          removed |-> FALSE])
    /\ renamed = {} /\ raced = {}

-----------------------------------------------------------------------------
Exists(id) == directory[id] # Null
Findable(id) == Exists(id) /\ ~directory[id].removed

\* What a foreign key accepts: removed rows too.
References(id, kind) == id = Null \/ (Exists(id) /\ directory[id].kind = kind)

\* Rows of one kind; branches, of one company.
SameName(row, other) ==
    row.kind = other.kind /\ row.name = other.name /\ row.company = other.company

\* FAULT: the check overlooks removed rows.
NameTakenByFindable(row) ==
    \E id \in Entries: Findable(id) /\ SameName(directory[id], row)

\* Removed rows count (withDeleted).
NameTaken(row) == \E id \in Entries: Exists(id) /\ SameName(directory[id], row)

\* Handlers that have found the same name free.
Rivals(row) == {h \in Handlers: At(h, "entry.save") /\ SameName(op[h].row, row)}

CreateEntry(h) ==
    \E row \in NewEntries:
        /\ row.kind # "designation" => ~NameTaken(row)
        /\ Begin(h, "directory", [pc |-> "entry.save", row |-> row])
        /\ raced' = IF Rivals(row) # {} THEN raced \cup {row.name} ELSE raced
        /\ UNCHANGED <<directory, renamed>>

\* Only companies have a unique index; a branch needs its company.
SaveRefused(row) ==
    \/ row.kind = "company" /\ NameTaken(row)
    \/ ~References(row.company, "company")

SaveEntry(h) ==
    /\ At(h, "entry.save")
    /\ IF SaveRefused(op[h].row)
       THEN UNCHANGED directory
       ELSE /\ HasFreshId(directory)
            /\ directory' = [directory EXCEPT ![FreshId(directory)] = op[h].row]
    /\ Finish(h)
    /\ UNCHANGED <<renamed, raced>>

\* A new name, or another company for a branch.
UpdateEntry(h) ==
    \E id \in Entries, row \in NewEntries:
        /\ Findable(id)
        /\ row.kind = directory[id].kind
        /\ Begin(h, "directory", [pc |-> "entry.update", id |-> id, row |-> row])
        /\ UNCHANGED directoryTables

\* No update checks the name, nor brings a removed row back.
RenameEntry(h) ==
    /\ At(h, "entry.update")
    /\ LET id == op[h].id
           row == [op[h].row EXCEPT !.removed = directory[id].removed]
           nameRefused ==
               /\ row.kind = "company"
               /\ \E other \in Entries \ {id}: Exists(other) /\ SameName(directory[other], row)
       IN  IF nameRefused \/ ~References(row.company, "company")
           THEN UNCHANGED <<directory, renamed>>
           ELSE /\ directory' = [directory EXCEPT ![id] = row]
                /\ renamed' = renamed \cup {row.name}
    /\ Finish(h)
    /\ UNCHANGED raced

RemoveEntry ==
    \E id \in Entries:
        /\ Expected("directory")
        /\ Findable(id)
        /\ directory' = [directory EXCEPT ![id].removed = TRUE]
        /\ Instant("directory")
        /\ UNCHANGED <<renamed, raced>>

DirectoryRequests(h) == Ready(h, "directory") /\ (CreateEntry(h) \/ UpdateEntry(h))
DirectorySteps(h) == SaveEntry(h) \/ RenameEntry(h)

-----------------------------------------------------------------------------
\* Two departments, companies or branches of a company have the same name only
\* if an update gave it to one of them or both were created at the same time:
\* a removed row keeps its name taken (create, update and remove of the
\* directory services).
NamesNotReused ==
    \A id, other \in Entries:
        (/\ id # other
         /\ Exists(id) /\ Exists(other)
         /\ directory[id].kind # "designation"
         /\ SameName(directory[id], directory[other])) =>
            directory[id].name \in renamed \cup raced
=============================================================================

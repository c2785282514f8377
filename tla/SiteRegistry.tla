---------------------------- MODULE SiteRegistry ----------------------------
(***************************************************************************)
(* EmbeddedReader's registry of one site: the DataFusion table that        *)
(* queries name, the `registered` set that says whether it is there, and   *)
(* the site's Parquet partitions on disk.  Queries register the site on    *)
(* first use, the writer after every file it renames into place, and the   *)
(* retention pruner drops and re-registers it.  Table and set are guarded  *)
(* by separate locks, and no lock spans an await: a step below is what     *)
(* runs between two of them.                                               *)
(*                                                                         *)
(* Sites do not share anything here, so one of them is the whole story.    *)
(***************************************************************************)
EXTENDS FiniteSets

CONSTANTS
    Query,   \* queries in flight at once
    Part,    \* the site's date partitions
    Old,     \* those older than the retention cutoff
    Writer,  \* the writer task
    Pruner,  \* the retention loop
    Faults   \* whether directory walks and schema reads may fail

ASSUME OldAssumption == Old \subseteq Part
ASSUME ActorAssumption == Writer # Pruner /\ {Writer, Pruner} \cap Query = {}
ASSUME FaultsAssumption == Faults \in BOOLEAN

Actor == Query \cup {Writer, Pruner}

VARIABLES
    parts,       \* partitions that hold a .parquet file
    table,       \* the table is in the SessionContext
    registered,  \* the site is in `registered`
    at,          \* where each actor is
    clean,       \* history: the last prune overlapped no registration
    faulted      \* history: something on disk failed

Place == {"idle", "ensure", "probe", "infer", "add", "mark", "reread", "plan",
          "touched", "forget"}

vars == <<parts, table, registered, at, clean, faulted>>

(* EmbeddedReader::new registers every site that has files; a failure is   *)
(* a warning.                                                              *)
Init ==
    /\ parts \in SUBSET Part
    /\ faulted \in (IF Faults THEN BOOLEAN ELSE {FALSE})
    /\ registered = (parts # {} /\ ~faulted)
    /\ table = registered
    /\ at = [a \in Actor |-> "idle"]
    /\ clean = TRUE

Move(a, from, to) == at[a] = from /\ at' = [at EXCEPT ![a] = to]

(* What each caller does once its ensure_site_registered is Ok. *)
Returned(a) == IF a \in Query THEN "reread" ELSE "idle"

(* Somebody has added the table and not yet marked the site. *)
Registering == \E a \in Actor : at[a] = "mark"
-----------------------------------------------------------------------------
(* ensure_site_registered: the early return, or on to register_site. *)
Ensure(a) ==
    /\ a # Pruner
    /\ Move(a, "ensure", IF registered THEN Returned(a) ELSE "probe")
    /\ UNCHANGED <<parts, table, registered, clean, faulted>>

(* register_site: no directory or no file in it is Ok without a table. *)
Probe(a) ==
    /\ Move(a, "probe", IF parts = {} THEN Returned(a) ELSE "infer")
    /\ UNCHANGED <<parts, table, registered, clean, faulted>>

Infer(a) ==
    /\ parts # {}
    /\ Move(a, "infer", "add")
    /\ UNCHANGED <<parts, table, registered, clean, faulted>>

(* infer_schema finds no file any more, or cannot read one. *)
InferFails(a) ==
    /\ Move(a, "infer", "idle")
    /\ parts = {} \/ Faults
    /\ faulted' = (faulted \/ parts # {})
    /\ UNCHANGED <<parts, table, registered, clean>>

(* register_table refuses a name that is taken; the caller gets the error. *)
AddTable(a) ==
    /\ Move(a, "add", IF table THEN "idle" ELSE "mark")
    /\ table' = TRUE
    /\ clean' = (clean /\ (table \/ at[Pruner] # "forget"))
    /\ UNCHANGED <<parts, registered, faulted>>

Mark(a) ==
    /\ Move(a, "mark", Returned(a))
    /\ registered' = TRUE
    /\ UNCHANGED <<parts, table, clean, faulted>>

RegisterSite(a) == Probe(a) \/ Infer(a) \/ AddTable(a) \/ Mark(a)
-----------------------------------------------------------------------------
StartQuery(q) ==
    /\ Move(q, "idle", "ensure")
    /\ UNCHANGED <<parts, table, registered, clean, faulted>>

(* ensure_site_table_available's second look: no table, an empty answer. *)
Reread(q) ==
    /\ Move(q, "reread", IF registered THEN "plan" ELSE "idle")
    /\ UNCHANGED <<parts, table, registered, clean, faulted>>

(* The SQL is planned against the table, or fails for want of it. *)
Plan(q) ==
    /\ Move(q, "plan", "idle")
    /\ UNCHANGED <<parts, table, registered, clean, faulted>>

(* A query's future may be dropped where it awaits the file system. *)
QueryDropped(q) ==
    /\ at[q] \in {"probe", "infer"}
    /\ at' = [at EXCEPT ![q] = "idle"]
    /\ UNCHANGED <<parts, table, registered, clean, faulted>>

(* write_partition: the file is renamed into place, then the reader told. *)
AfterRename_Bug == "idle"
AfterRename == "ensure"

WriteFile(p) ==
    /\ Move(Writer, "idle", AfterRename)
    /\ parts' = parts \cup {p}
    /\ UNCHANGED <<table, registered, clean, faulted>>
-----------------------------------------------------------------------------
(* prune_before: the walk removes old partitions one by one. *)
RemoveOld(p) ==
    /\ at[Pruner] \in {"idle", "touched"}
    /\ at' = [at EXCEPT ![Pruner] = "touched"]
    /\ parts' = parts \ {p}
    /\ UNCHANGED <<table, registered, clean, faulted>>

(* An error anywhere in the walk returns before any site is re-registered. *)
WalkFails ==
    /\ Faults
    /\ Move(Pruner, "touched", "idle")
    /\ faulted' = TRUE
    /\ UNCHANGED <<parts, table, registered, clean>>

(* reregister_site: deregister_table, then registered.remove, then         *)
(* register_site.                                                          *)
DropTable ==
    /\ Move(Pruner, "touched", "forget")
    /\ table' = FALSE
    /\ clean' = ~Registering
    /\ UNCHANGED <<parts, registered, faulted>>

Forget_Bug ==
    /\ Move(Pruner, "forget", "probe")
    /\ UNCHANGED <<parts, table, registered, clean, faulted>>
Forget ==
    /\ Move(Pruner, "forget", "probe")
    /\ registered' = FALSE
    /\ UNCHANGED <<parts, table, clean, faulted>>

QueryStep(q) == StartQuery(q) \/ Reread(q) \/ Plan(q) \/ QueryDropped(q)
PrunerStep == (\E p \in parts \cap Old : RemoveOld(p)) \/ WalkFails \/ DropTable \/ Forget

Next ==
    \/ \E a \in Actor : Ensure(a) \/ RegisterSite(a) \/ InferFails(a)
    \/ \E q \in Query : QueryStep(q)
    \/ \E p \in Part : WriteFile(p)
    \/ PrunerStep

Spec == Init /\ [][Next]_vars

(* The tasks run; a query may be dropped, and nobody has to ask one. *)
FairSpec ==
    /\ Spec
    /\ \A a \in {Writer, Pruner} : WF_vars(Ensure(a) \/ RegisterSite(a) \/ InferFails(a))
    /\ \A q \in Query : WF_vars(Mark(q))
    /\ WF_vars(WalkFails \/ DropTable \/ Forget)
-----------------------------------------------------------------------------
TypeOK ==
    /\ parts \subseteq Part
    /\ table \in BOOLEAN /\ registered \in BOOLEAN
    /\ clean \in BOOLEAN /\ faulted \in BOOLEAN
    /\ at \in [Actor -> Place]
    /\ \A q \in Query : at[q] \notin {"touched", "forget"}
    /\ at[Writer] \notin {"touched", "forget", "reread", "plan"}
    /\ at[Pruner] \notin {"ensure", "reread", "plan"}

(* `registered` tells the truth about the table whenever no registration   *)
(* is half done, unless the last prune overlapped somebody's registration: *)
(* two queries, or a query and the writer, never confuse it, and a prune   *)
(* that overlaps nobody repairs what an earlier one confused.              *)
OnlyOverlapConfuses ==
    clean /\ ~Registering /\ at[Pruner] # "forget" => (registered <=> table)

(* A file renamed into place becomes visible to queries without any query  *)
(* asking for it, unless it is pruned first or something failed.           *)
FilesBecomeVisible ==
    parts # {} ~> \/ table /\ registered
                  \/ parts = {}
                  \/ ~clean
                  \/ faulted
=============================================================================

-------------------------- MODULE SiteStoreProofs --------------------------
(***************************************************************************)
(* Proofs about the two places a site lives in: its table in the query     *)
(* registry (SiteRegistry, whose specification is Spec), for any number of *)
(* queries and any partitions; and its rows in SQLite (MetaStore, whose    *)
(* specification is MetaSpec), for any finite number of sites and any      *)
(* number of edits, crashes and failing statements.                        *)
(***************************************************************************)
EXTENDS SiteRegistry, MetaStore, FiniteSetTheorems, SequenceTheorems, TLAPS

(* What makes OnlyOverlapConfuses inductive: while the history is clean,   *)
(* the table is gone between the pruner's two steps and nobody registers;  *)
(* and at most one actor is between adding the table and marking the site. *)
DropAlone ==
    clean /\ at[Pruner] = "forget" => ~table /\ ~Registering
OneRegistrar ==
    clean => \A a, b \in Actor : at[a] = "mark" /\ at[b] = "mark" => a = b
HalfDone ==
    clean /\ Registering => table /\ ~registered

IInv == TypeOK /\ DropAlone /\ OneRegistrar /\ HalfDone /\ OnlyOverlapConfuses

LEMMA InitIInv == Init => IInv
<1> SUFFICES ASSUME Init PROVE IInv
  OBVIOUS
<1>1. TypeOK
  BY ActorAssumption DEF Init, TypeOK, Actor, Place
<1>2. DropAlone /\ OneRegistrar /\ HalfDone /\ OnlyOverlapConfuses
  BY ActorAssumption DEF Init, DropAlone, OneRegistrar, HalfDone,
     OnlyOverlapConfuses, Registering, Actor
<1> QED BY <1>1, <1>2 DEF IInv

(* An actor that moves neither into nor out of "mark", nor, as the pruner,  *)
(* into or out of "forget", disturbs nothing the registry depends on.       *)
LEMMA QuietMove ==
    ASSUME IInv, NEW a \in Actor, NEW from, NEW to, Move(a, from, to),
           UNCHANGED <<table, registered, clean>>,
           from # "mark", to # "mark",
           a = Pruner => from # "forget" /\ to # "forget"
    PROVE  DropAlone' /\ OneRegistrar' /\ HalfDone' /\ OnlyOverlapConfuses'
<1>1. \A b \in Actor : at'[b] = "mark" <=> at[b] = "mark"
  BY DEF IInv, TypeOK, Move
<1>2. at'[Pruner] = "forget" <=> at[Pruner] = "forget"
  BY DEF IInv, TypeOK, Move, Actor
<1>3. Registering' <=> Registering
  BY <1>1 DEF Registering
<1> QED BY <1>1, <1>2, <1>3 DEF IInv, DropAlone, OneRegistrar, HalfDone, OnlyOverlapConfuses

(* The types survive every step. *)
LEMMA TypeKept == TypeOK /\ [Next]_vars => TypeOK'
<1> SUFFICES ASSUME TypeOK, [Next]_vars PROVE TypeOK'
  OBVIOUS
<1> USE ActorAssumption, FaultsAssumption DEF TypeOK, Actor, Place, Move, Returned
<1>1. ASSUME NEW a \in Actor, Ensure(a) PROVE TypeOK'
  BY <1>1 DEF Ensure
<1>2. ASSUME NEW a \in Actor, Probe(a) PROVE TypeOK'
  BY <1>2 DEF Probe
<1>3. ASSUME NEW a \in Actor, Infer(a) PROVE TypeOK'
  BY <1>3 DEF Infer
<1>4. ASSUME NEW a \in Actor, InferFails(a) PROVE TypeOK'
  BY <1>4 DEF InferFails
<1>5. ASSUME NEW a \in Actor, AddTable(a) PROVE TypeOK'
  BY <1>5 DEF AddTable
<1>6. ASSUME NEW a \in Actor, Mark(a) PROVE TypeOK'
  BY <1>6 DEF Mark
<1>7. ASSUME NEW q \in Query, QueryStep(q) PROVE TypeOK'
  BY <1>7 DEF QueryStep, StartQuery, Reread, Plan, QueryDropped
<1>8. ASSUME NEW p \in Part, WriteFile(p) PROVE TypeOK'
  BY <1>8 DEF WriteFile, AfterRename
<1>9. CASE PrunerStep
  BY <1>9 DEF PrunerStep, RemoveOld, WalkFails, DropTable, Registering, Forget
<1>10. CASE UNCHANGED vars
  BY <1>10 DEF vars
<1> QED BY <1>1, <1>2, <1>3, <1>4, <1>5, <1>6, <1>7, <1>8, <1>9, <1>10
        DEF Next, RegisterSite

(* Adding the table: refused when the name is taken, otherwise the actor    *)
(* becomes the only one that is half done.                                  *)
LEMMA AddTableKeeps ==
    ASSUME IInv, NEW a \in Actor, AddTable(a)
    PROVE  DropAlone' /\ OneRegistrar' /\ HalfDone' /\ OnlyOverlapConfuses'
<1>1. CASE table
  <2>1. Move(a, "add", "idle") /\ UNCHANGED <<table, registered, clean>>
    BY <1>1 DEF AddTable, IInv, TypeOK
  <2> QED BY <2>1, QuietMove
<1>2. CASE ~table /\ clean'
  <2>1. at[Pruner] # "forget" /\ clean /\ ~Registering /\ ~registered
    BY <1>2 DEF AddTable, IInv, TypeOK, HalfDone, OnlyOverlapConfuses
  <2>2. at' = [at EXCEPT ![a] = "mark"] /\ table' /\ ~registered'
    BY <1>2, <2>1 DEF AddTable, Move
  <2>3. \A b \in Actor : at'[b] = "mark" <=> b = a
    BY <2>1, <2>2 DEF IInv, TypeOK, Registering
  <2>4. at'[Pruner] # "forget"
    BY <2>1, <2>2 DEF IInv, TypeOK, Actor
  <2>5. Registering'
    BY <2>3 DEF Registering
  <2> QED BY <2>2, <2>3, <2>4, <2>5
          DEF DropAlone, OneRegistrar, HalfDone, OnlyOverlapConfuses
<1>3. CASE ~clean'
  BY <1>3 DEF DropAlone, OneRegistrar, HalfDone, OnlyOverlapConfuses
<1> QED BY <1>1, <1>2, <1>3

(* Marking the site: the only half-done registration completes.             *)
LEMMA MarkKeeps ==
    ASSUME IInv, NEW a \in Actor, Mark(a)
    PROVE  DropAlone' /\ OneRegistrar' /\ HalfDone' /\ OnlyOverlapConfuses'
<1>1. CASE clean
  <2>1. Registering /\ table /\ at[Pruner] # "forget"
    BY <1>1 DEF Mark, Move, IInv, HalfDone, DropAlone, Registering
  <2>2. \A b \in Actor : at[b] = "mark" => b = a
    BY <1>1 DEF Mark, Move, IInv, OneRegistrar
  <2>3. Returned(a) \notin {"mark", "forget"}
    BY DEF Returned
  <2>4. \A b \in Actor : at'[b] # "mark"
    BY <2>2, <2>3 DEF Mark, Move, IInv, TypeOK
  <2>5. at'[Pruner] # "forget"
    BY <2>1, <2>3 DEF Mark, Move, IInv, TypeOK, Actor
  <2>6. registered' /\ table'
    BY <2>1 DEF Mark
  <2> QED BY <2>4, <2>5, <2>6
          DEF DropAlone, OneRegistrar, HalfDone, OnlyOverlapConfuses, Registering
<1>2. CASE ~clean
  BY <1>2 DEF Mark, DropAlone, OneRegistrar, HalfDone, OnlyOverlapConfuses
<1> QED BY <1>1, <1>2

(* The pruner's two steps: the first makes the history clean exactly when   *)
(* nobody is half done, the second leaves table and set both empty.         *)
LEMMA PrunerKeeps ==
    ASSUME IInv, DropTable \/ Forget
    PROVE  DropAlone' /\ OneRegistrar' /\ HalfDone' /\ OnlyOverlapConfuses'
<1>1. CASE DropTable
  <2>1. \A b \in Actor : at'[b] = "mark" <=> at[b] = "mark"
    BY <1>1 DEF DropTable, Move, IInv, TypeOK
  <2>2. Registering' <=> Registering
    BY <2>1 DEF Registering
  <2>3. at'[Pruner] = "forget"
    BY <1>1 DEF DropTable, Move, IInv, TypeOK, Actor
  <2>4. ~table' /\ clean' = ~Registering
    BY <1>1 DEF DropTable
  <2>5. DropAlone' /\ HalfDone' /\ OnlyOverlapConfuses'
    BY <2>2, <2>3, <2>4 DEF DropAlone, HalfDone, OnlyOverlapConfuses
  <2>6. OneRegistrar'
    BY <2>2, <2>4 DEF OneRegistrar, Registering
  <2> QED BY <2>5, <2>6
<1>2. CASE Forget /\ clean
  <2>1. ~table /\ ~Registering
    BY <1>2 DEF Forget, Move, IInv, DropAlone
  <2>2. \A b \in Actor : at'[b] # "mark"
    BY <1>2, <2>1 DEF Forget, Move, IInv, TypeOK, Registering
  <2>3. ~table' /\ ~registered' /\ at'[Pruner] # "forget"
    BY <1>2, <2>1 DEF Forget, Move, IInv, TypeOK, Actor
  <2> QED BY <2>2, <2>3
          DEF DropAlone, OneRegistrar, HalfDone, OnlyOverlapConfuses, Registering
<1>3. CASE Forget /\ ~clean
  BY <1>3 DEF Forget, DropAlone, OneRegistrar, HalfDone, OnlyOverlapConfuses
<1> QED BY <1>1, <1>2, <1>3

(* Every other step is a quiet move.                                        *)
LEMMA OthersKeep ==
    ASSUME IInv, NEW a \in Actor,
           \/ Ensure(a) \/ Probe(a) \/ Infer(a) \/ InferFails(a)
           \/ a \in Query /\ QueryStep(a)
           \/ a = Writer /\ \E p \in Part : WriteFile(p)
           \/ a = Pruner /\ (WalkFails \/ \E p \in Part : RemoveOld(p))
    PROVE  DropAlone' /\ OneRegistrar' /\ HalfDone' /\ OnlyOverlapConfuses'
<1>1. /\ UNCHANGED <<table, registered, clean>>
      /\ \E from, to \in Place : /\ Move(a, from, to)
                                 /\ {from, to} \cap {"mark", "forget"} = {}
  <2>1. CASE Ensure(a)
    BY <2>1 DEF Ensure, Returned, Place
  <2>2. CASE Probe(a)
    BY <2>2 DEF Probe, Returned, Place
  <2>3. CASE Infer(a)
    BY <2>3 DEF Infer, Place
  <2>4. CASE InferFails(a)
    BY <2>4 DEF InferFails, Place
  <2>5. CASE a \in Query /\ QueryStep(a)
    BY <2>5 DEF QueryStep, StartQuery, Reread, Plan, QueryDropped, Move, Place
  <2>6. CASE a = Writer /\ \E p \in Part : WriteFile(p)
    BY <2>6 DEF WriteFile, AfterRename, Place
  <2>7. CASE a = Pruner /\ WalkFails
    BY <2>7 DEF WalkFails, Place
  <2>8. CASE a = Pruner /\ \E p \in Part : RemoveOld(p)
    BY <2>8 DEF RemoveOld, Move, Place
  <2> QED BY <2>1, <2>2, <2>3, <2>4, <2>5, <2>6, <2>7, <2>8
<1>2. PICK from \in Place, to \in Place :
          Move(a, from, to) /\ {from, to} \cap {"mark", "forget"} = {}
  BY <1>1
<1> QED BY <1>1, <1>2, QuietMove

LEMMA NextKeeps == IInv /\ [Next]_vars => IInv'
<1> SUFFICES ASSUME IInv, [Next]_vars PROVE IInv'
  OBVIOUS
<1>1. TypeOK'
  BY TypeKept DEF IInv
<1> DEFINE Goal == DropAlone' /\ OneRegistrar' /\ HalfDone' /\ OnlyOverlapConfuses'
<1>2. ASSUME NEW a \in Actor, Ensure(a) \/ RegisterSite(a) \/ InferFails(a)
      PROVE  Goal
  BY <1>2, OthersKeep, AddTableKeeps, MarkKeeps DEF RegisterSite
<1>3. ASSUME NEW q \in Query, QueryStep(q) PROVE Goal
  BY <1>3, OthersKeep DEF Actor
<1>4. ASSUME NEW p \in Part, WriteFile(p) PROVE Goal
  <2>1. Writer \in Actor /\ \E x \in Part : WriteFile(x)
    BY <1>4 DEF Actor
  <2>2. ASSUME NEW a \in Actor, a = Writer PROVE Goal
    BY <2>1, <2>2, OthersKeep
  <2> QED BY <2>1, <2>2
<1>5. ASSUME PrunerStep PROVE Goal
  <2>1. CASE DropTable \/ Forget
    BY <2>1, PrunerKeeps
  <2>2. CASE WalkFails \/ \E x \in Part : RemoveOld(x)
    <3>1. ASSUME NEW a \in Actor, a = Pruner PROVE Goal
      BY <1>5, <2>2, <3>1, OthersKeep
    <3> QED BY <3>1 DEF Actor
  <2> QED BY <1>5, <2>1, <2>2, OldAssumption DEF PrunerStep
<1>6. CASE UNCHANGED vars
  BY <1>1, <1>6 DEF vars, IInv, DropAlone, OneRegistrar, HalfDone, OnlyOverlapConfuses, Registering
<1> QED BY <1>1, <1>2, <1>3, <1>4, <1>5, <1>6 DEF Next, IInv

(* Every actor and both halves of the registry keep their types. *)
THEOREM TypeCorrect == Spec => []TypeOK
<1>1. IInv => TypeOK
  BY DEF IInv
<1> QED BY InitIInv, NextKeeps, <1>1, PTL DEF Spec

(* reader.rs::register_site and reregister_site: `registered` and the       *)
(* SessionContext disagree only after a prune that overlapped somebody      *)
(* else's registration, for any number of queries at once.                  *)
THEOREM OnlyOverlapConfusesHolds == Spec => []OnlyOverlapConfuses
<1>1. IInv => OnlyOverlapConfuses
  BY DEF IInv
<1> QED BY InitIInv, NextKeeps, <1>1, PTL DEF Spec
-----------------------------------------------------------------------------
(* MetaStore. *)

(* What an operation may still have to run.  Only creating a site and the  *)
(* seed of version 2 write starter alerts: the first for a site that is    *)
(* new, the second while the schema has no version 3 and nobody can have   *)
(* deleted anything.                                                       *)
Creates(left) ==
    \A i \in DOMAIN left : /\ left[i].do \in {"site", "starter"}
                           /\ left[i].do = "starter" => <<left[i].site, left[i].arg>> \notin removed

Deletes(left) == \A i \in DOMAIN left : left[i].do \in {"fires", "alerts", "children", "row"}

Migrates(left) ==
    /\ \A i \in DOMAIN left : left[i].do \in {"drop", "seed", "starter", "version2", "version3"}
    /\ \A i \in DOMAIN left : i < Len(left) => left[i].do # "version3"
    /\ schema_version = 3 => \A i \in DOMAIN left : left[i].do = "drop"
    /\ schema_version # 3 => left[Len(left)].do = "version3"

(* A statement writes rows of sites that have been given their ULID. *)
Fits(st) ==
    /\ st.do \in {"site", "starter"} => st.site \in born
    /\ st.do = "starter" => st.arg \in Starter

MetaInv ==
    /\ MetaTypeOK
    /\ conn = "open" => schema_version = 3
    /\ schema_version # 3 => removed = {}
    /\ sites \subseteq born /\ \A a \in alerts : a[1] \in born
    /\ removed \subseteq born \X Starter
    /\ removed \cap alerts = {}
    /\ job.op \in {"create", "delete"} => conn = "open"
    /\ job.op = "create" => Creates(job.left)
    /\ job.op = "delete" => Deletes(job.left)
    /\ job.op = "migrate" => Migrates(job.left)
    /\ \A i \in DOMAIN job.left : Fits(job.left[i])
-----------------------------------------------------------------------------
LEMMA One == \A n \in Nat \ {0} : ~(n > 1) => n = 1
  OBVIOUS

LEMMA Shift == \A i, m, n \in Nat : (i = m + (n - 1)) <=> (i - m + 1 = n)
  OBVIOUS

LEMMA Within ==
    \A i, m, n \in Nat : i > m /\ i <= m + (n - 1) =>
       /\ i - m + 1 \in 1 .. n /\ i - m + 1 > 1
       /\ (i - m + 1) - 1 \in 1 .. n - 1 /\ (i - m + 1) - 1 = i - m
  OBVIOUS

LEMMA DoTyped ==
    ASSUME NEW what \in {"site", "starter", "fires", "alerts", "children", "row", "drop", "seed",
                         "version2", "version3"},
           NEW site \in SiteId \cup {"none"}, NEW arg \in Starter \cup Table \cup {"none"}
    PROVE  /\ Do(what, site, arg) \in Statement
           /\ Do(what, site, arg).do = what /\ Do(what, site, arg).site = site /\ Do(what, site, arg).arg = arg
  BY DEF Do, Statement

LEMMA StarterRowsTyped ==
    ASSUME NEW s \in SiteId
    PROVE  /\ StarterRows(s) \in Seq(Statement) /\ Len(StarterRows(s)) = 3
           /\ \A i \in 1 .. 3 : /\ StarterRows(s)[i].do = "starter" /\ StarterRows(s)[i].site = s
                                /\ StarterRows(s)[i].arg \in Starter
                                /\ StarterRows(s)[i] \in Statement
<1>1. /\ Do("starter", s, "traffic_spike") \in Statement
      /\ Do("starter", s, "traffic_drop") \in Statement
      /\ Do("starter", s, "new_referrer") \in Statement
  BY DoTyped DEF Starter
<1> QED BY <1>1 DEF StarterRows, Do, Starter

(* The seed runs nothing but starter statements of sites that exist. *)
LEMMA SeedTyped ==
    ASSUME MetaTypeOK, sites \subseteq born, NEW more \in seed_default_alerts_for_empty_sites
    PROVE  /\ more \in Seq(Statement)
           /\ \A i \in DOMAIN more : /\ more[i].do = "starter" /\ Fits(more[i])
                                     /\ more[i].site \in sites
<1> DEFINE bare == {s \in sites : AlertsOf(s) = {}}
           n == Cardinality(bare)
<1>1. n \in Nat
  <2>1. IsFiniteSet(bare)
    BY MetaBounds, FS_Subset DEF MetaTypeOK
  <2> QED BY <2>1, FS_CardinalityType
<1>2. PICK q \in [1 .. n -> bare] :
         more = [k \in 1 .. 3 * n |-> StarterRows(q[(k + 2) \div 3])[((k - 1) % 3) + 1]]
  BY DEF seed_default_alerts_for_empty_sites
<1> HIDE DEF n
<1>3. ASSUME NEW k \in 1 .. 3 * n
      PROVE  /\ more[k] \in Statement /\ more[k].do = "starter" /\ Fits(more[k])
             /\ more[k].site \in sites
  <2>1. (k + 2) \div 3 \in 1 .. n /\ ((k - 1) % 3) + 1 \in 1 .. 3
    BY <1>1
  <2>2. q[(k + 2) \div 3] \in sites /\ sites \subseteq born /\ born \subseteq SiteId
    BY <2>1 DEF MetaTypeOK
  <2>3. more[k] = StarterRows(q[(k + 2) \div 3])[((k - 1) % 3) + 1]
    BY <1>2
  <2> QED BY <2>1, <2>2, <2>3, StarterRowsTyped DEF Fits
<1>4. 3 * n \in Nat /\ DOMAIN more = 1 .. 3 * n
  BY <1>1, <1>2
<1>5. more \in [1 .. 3 * n -> Statement]
  BY <1>2, <1>3, <1>4
<1> QED BY <1>3, <1>4, <1>5
-----------------------------------------------------------------------------
(* One statement. *)

LEMMA HeadOfJob ==
    ASSUME MetaTypeOK, job.op # "idle"
    PROVE  /\ job.left \in Seq(Statement) /\ job.left # <<>> /\ Len(job.left) \in Nat \ {0}
           /\ Head(job.left) \in Statement /\ Head(job.left) = job.left[1] /\ 1 \in DOMAIN job.left
           /\ DOMAIN job.left = 1 .. Len(job.left)
           /\ Tail(job.left) \in Seq(Statement) /\ Len(Tail(job.left)) = Len(job.left) - 1
           /\ \A i \in 1 .. Len(job.left) - 1 : Tail(job.left)[i] = job.left[i + 1]
<1>1. job.left \in Seq(Statement) /\ job.left # <<>>
  BY DEF MetaTypeOK, Job
<1> QED BY <1>1, HeadTailProperties, EmptySeq, LenProperties

LEMMA ExecuteTyped ==
    ASSUME MetaTypeOK, NEW st \in Statement, Execute(st),
           Fits(st), sites \subseteq born, \A a \in alerts : a[1] \in born
    PROVE  /\ sites' \subseteq SiteId /\ alerts' \subseteq AlertRow /\ fires' \subseteq AlertRow
           /\ children' \subseteq ChildRow /\ schema_version' \in 1 .. 3 /\ channel_id' \in BOOLEAN
           /\ sites' \subseteq born /\ \A a \in alerts' : a[1] \in born
<1>1. sites' \subseteq SiteId /\ sites' \subseteq born
  BY DEF MetaTypeOK, Execute, Fits
<1>2. alerts' \subseteq AlertRow /\ \A a \in alerts' : a[1] \in born
  <2>1. CASE st.do = "starter"
    <3>1. alerts' = alerts \cup {<<st.site, st.arg>>} /\ st.site \in born /\ st.arg \in Starter
      BY <2>1 DEF Execute, Fits
    <3> QED BY <3>1 DEF MetaTypeOK, AlertRow
  <2>2. CASE st.do # "starter"
    BY <2>2 DEF MetaTypeOK, Execute
  <2> QED BY <2>1, <2>2
<1>3. fires' \subseteq AlertRow /\ children' \subseteq ChildRow
  BY DEF MetaTypeOK, Execute
<1>4. schema_version' \in 1 .. 3
  BY DEF MetaTypeOK, Execute
<1>5. channel_id' \in BOOLEAN
  BY DEF Execute
<1> QED BY <1>1, <1>2, <1>3, <1>4, <1>5

(* Where a statement of a well-formed job may write a starter alert, and   *)
(* what it does to the version.                                            *)
LEMMA StatementEffect ==
    ASSUME MetaInv, job.op # "idle", Execute(Head(job.left))
    PROVE  /\ removed \cap alerts' = {}
           /\ schema_version' # 3 => removed = {}
           /\ schema_version = 3 => schema_version' = 3
<1> DEFINE st == Head(job.left)
<1>1. job.op \in {"create", "delete", "migrate"} /\ schema_version \in 1 .. 3
  BY DEF MetaInv, MetaTypeOK, Job
<1>2. st = job.left[1] /\ 1 \in DOMAIN job.left
  BY HeadOfJob DEF MetaInv
<1>3. CASE st.do = "starter"
  <2>1. alerts' = alerts \cup {<<st.site, st.arg>>} /\ schema_version' = schema_version
    BY <1>3 DEF Execute
  <2>2. <<st.site, st.arg>> \notin removed
    BY <1>1, <1>2, <1>3 DEF MetaInv, Creates, Deletes, Migrates
  <2> QED BY <2>1, <2>2 DEF MetaInv
<1>4. CASE st.do # "starter"
  <2>1. alerts' \subseteq alerts
    BY <1>4 DEF Execute
  <2>2. schema_version = 3 => st.do \notin {"version2", "version3"}
    BY <1>1, <1>2 DEF MetaInv, Creates, Deletes, Migrates
  <2>3. schema_version = 3 => schema_version' = 3
    BY <2>2 DEF Execute
  <2> QED BY <1>1, <2>1, <2>3 DEF MetaInv
<1> QED BY <1>3, <1>4

(* The rest of a job after its next statement: what the seed unfolds into, *)
(* then the tail.                                                          *)
RestOfTheJob(left) ==
    /\ left \in Seq(Statement)
    /\ \A i \in DOMAIN left :
          \/ \E j \in DOMAIN job.left : /\ j > 1 /\ left[i] = job.left[j]
                                        /\ (i = Len(left) <=> j = Len(job.left))
          \/ /\ Head(job.left).do = "seed" /\ left[i].do = "starter" /\ Fits(left[i])
             /\ left[i].site \in sites /\ (Len(job.left) > 1 => i < Len(left))
    /\ Len(job.left) > 1 => (left # <<>> /\ left[Len(left)] = job.left[Len(job.left)])
    /\ (Len(job.left) = 1 /\ Head(job.left).do # "seed") => left = <<>>

LEMMA RestOfJob ==
    ASSUME MetaInv, job.op # "idle",
           NEW more \in Unfolded,
           NEW left, left = more \o Tail(job.left)
    PROVE  RestOfTheJob(left)
<1> DEFINE tail == Tail(job.left)
<1>1. MetaTypeOK
  BY DEF MetaInv
<1>2. more \in Seq(Statement) /\ (more # <<>> => Head(job.left).do = "seed")
      /\ \A i \in DOMAIN more : /\ more[i].do = "starter" /\ Fits(more[i])
                                /\ more[i].site \in sites
  <2>1. CASE Head(job.left).do = "seed"
    BY <1>1, <2>1, SeedTyped DEF Unfolded, MetaInv
  <2>2. CASE Head(job.left).do # "seed"
    <3>1. more = <<>>
      BY <2>2 DEF Unfolded
    <3>2. more \in Seq(Statement) /\ DOMAIN more = {}
      BY <3>1
    <3> QED BY <3>1, <3>2
  <2> QED BY <2>1, <2>2
<1>3. /\ tail \in Seq(Statement) /\ Len(tail) = Len(job.left) - 1 /\ Len(job.left) \in Nat \ {0}
      /\ DOMAIN job.left = 1 .. Len(job.left)
      /\ \A i \in 1 .. Len(job.left) - 1 : tail[i] = job.left[i + 1]
  BY <1>1, HeadOfJob
<1>a. left = more \o tail
  OBVIOUS
<1> HIDE DEF tail
<1>b. Len(more) \in Nat /\ DOMAIN more = 1 .. Len(more) /\ (more # <<>> => Len(more) > 0)
  BY <1>2, LenProperties, EmptySeq
<1>c. /\ left \in Seq(Statement) /\ Len(left) = Len(more) + Len(tail)
      /\ \A i \in 1 .. Len(more) + Len(tail) :
            left[i] = IF i <= Len(more) THEN more[i] ELSE tail[i - Len(more)]
  <2>1. more \in Seq(Statement) /\ tail \in Seq(Statement)
    BY <1>2, <1>3
  <2>2. /\ more \o tail \in Seq(Statement)
        /\ Len(more \o tail) = Len(more) + Len(tail)
        /\ \A i \in 1 .. Len(more) + Len(tail) :
              (more \o tail)[i] = IF i <= Len(more) THEN more[i] ELSE tail[i - Len(more)]
    BY <2>1, ConcatProperties
  <2> QED BY <1>a, <2>2, Zenon
<1>d. DOMAIN left = 1 .. Len(left)
  BY <1>c, LenProperties
<1>4. /\ left \in Seq(Statement) /\ Len(left) = Len(more) + Len(tail)
      /\ \A i \in 1 .. Len(more) + Len(tail) :
            left[i] = IF i <= Len(more) THEN more[i] ELSE tail[i - Len(more)]
      /\ DOMAIN left = 1 .. Len(left) /\ DOMAIN more = 1 .. Len(more)
      /\ Len(more) \in Nat /\ (more # <<>> => Len(more) > 0)
  BY <1>b, <1>c, <1>d
<1>5. ASSUME NEW i \in DOMAIN left
      PROVE  \/ \E j \in DOMAIN job.left : j > 1 /\ left[i] = job.left[j] /\ (i = Len(left) <=> j = Len(job.left))
             \/ /\ Head(job.left).do = "seed" /\ left[i].do = "starter" /\ Fits(left[i])
                /\ left[i].site \in sites /\ (Len(job.left) > 1 => i < Len(left))
  <2>1. CASE i <= Len(more)
    <3>1. left[i] = more[i] /\ i \in DOMAIN more /\ more # <<>>
      BY <1>4, <2>1, EmptySeq
    <3>2. Len(job.left) > 1 => i < Len(left)
      BY <1>3, <1>4, <2>1
    <3> QED BY <1>2, <3>1, <3>2
  <2>2. CASE i > Len(more)
    <3> DEFINE j == i - Len(more) + 1
    <3>1. j \in DOMAIN job.left /\ j > 1 /\ j - 1 \in 1 .. Len(job.left) - 1 /\ j - 1 = i - Len(more)
      <4>1. i \in Nat /\ Len(more) \in Nat /\ Len(job.left) \in Nat
        BY <1>3, <1>4
      <4>2. i <= Len(more) + (Len(job.left) - 1) /\ i > Len(more)
        BY <1>3, <1>4, <2>2
      <4>3. /\ j \in 1 .. Len(job.left) /\ j > 1
            /\ j - 1 \in 1 .. Len(job.left) - 1 /\ j - 1 = i - Len(more)
        BY <4>1, <4>2, Within
      <4> QED BY <1>3, <4>3
    <3>2. left[i] = tail[j - 1]
      <4>1. i \in 1 .. Len(more) + Len(tail) /\ ~(i <= Len(more))
        BY <1>b, <1>c, <1>d, <2>2
      <4>2. left[i] = tail[i - Len(more)]
        BY <1>c, <4>1
      <4> QED BY <3>1, <4>2
    <3>3. left[i] = job.left[j]
      BY <1>3, <3>1, <3>2
    <3>4. i = Len(left) <=> j = Len(job.left)
      <4>1. i \in Nat /\ Len(more) \in Nat /\ Len(job.left) \in Nat
        BY <1>3, <1>4
      <4>2. Len(left) = Len(more) + (Len(job.left) - 1)
        BY <1>3, <1>4
      <4> QED BY <4>1, <4>2, Shift
    <3> QED BY <3>1, <3>3, <3>4
  <2> QED BY <1>4, <2>1, <2>2
<1>6. Len(job.left) > 1 => left # <<>> /\ left[Len(left)] = job.left[Len(job.left)]
  <2> SUFFICES ASSUME Len(job.left) > 1 PROVE left # <<>> /\ left[Len(left)] = job.left[Len(job.left)]
    OBVIOUS
  <2>1. Len(left) > 0 /\ Len(left) > Len(more) /\ Len(left) \in 1 .. Len(more) + Len(tail)
    BY <1>3, <1>4
  <2>2. left[Len(left)] = tail[Len(tail)] /\ Len(tail) \in 1 .. Len(job.left) - 1
    BY <1>3, <1>4, <2>1
  <2>3. tail[Len(tail)] = job.left[Len(tail) + 1] /\ Len(tail) + 1 = Len(job.left)
    BY <1>3, <2>2
  <2> QED BY <1>4, <2>1, <2>2, <2>3, EmptySeq
<1>7. Len(job.left) = 1 /\ Head(job.left).do # "seed" => left = <<>>
  BY <1>2, <1>3, <1>4, EmptySeq
<1> QED BY <1>4, <1>5, <1>6, <1>7 DEF RestOfTheJob

LEMMA RunStatementKeeps == ASSUME MetaInv, RunStatement PROVE MetaInv'
<1>1. PICK more \in Unfolded :
        LET left == more \o Tail(job.left)
        IN  /\ job' = IF left = <<>> THEN Idle ELSE [job EXCEPT !.left = left]
            /\ conn' = IF left = <<>> THEN "open" ELSE conn
  BY DEF RunStatement
<1>a. PICK left : left = more \o Tail(job.left)
  OBVIOUS
<1>b. job.left[1] = Head(job.left) /\ Len(job.left) \in Nat \ {0}
  BY HeadOfJob DEF RunStatement, MetaInv
<1>2. /\ job.op \in {"create", "delete", "migrate"} /\ job \in Job /\ MetaTypeOK
      /\ Execute(Head(job.left)) /\ UNCHANGED past
      /\ Head(job.left) = job.left[1] /\ Head(job.left) \in Statement
      /\ DOMAIN job.left = 1 .. Len(job.left) /\ Len(job.left) \in Nat \ {0}
  BY HeadOfJob DEF RunStatement, MetaInv, MetaTypeOK, Job
<1>3. RestOfTheJob(left)
  <2>1. job.op # "idle"
    BY DEF RunStatement
  <2>2. more \in Unfolded /\ left = more \o Tail(job.left)
    BY <1>1, <1>a
  <2> QED BY <2>1, <2>2, RestOfJob
<1>4. /\ removed \cap alerts' = {} /\ (schema_version' # 3 => removed = {})
      /\ (schema_version = 3 => schema_version' = 3)
  BY <1>2, StatementEffect
<1>5. Fits(Head(job.left)) /\ \A i \in DOMAIN job.left : Fits(job.left[i])
  BY <1>2 DEF MetaInv
<1>6. /\ sites' \subseteq SiteId /\ alerts' \subseteq AlertRow /\ fires' \subseteq AlertRow
      /\ children' \subseteq ChildRow /\ schema_version' \in 1 .. 3 /\ channel_id' \in BOOLEAN
      /\ sites' \subseteq born' /\ \A a \in alerts' : a[1] \in born'
  <2>1. born' = born /\ sites \subseteq born /\ \A a \in alerts : a[1] \in born
    BY <1>2 DEF MetaInv, past
  <2> QED BY <1>2, <1>5, <2>1, ExecuteTyped
<1>7. /\ job' = (IF left = <<>> THEN Idle ELSE [job EXCEPT !.left = left])
      /\ conn' = (IF left = <<>> THEN "open" ELSE conn)
  BY <1>1, <1>a
<1>8. MetaTypeOK'
  BY <1>2, <1>3, <1>6, <1>7 DEF RestOfTheJob, MetaTypeOK, Job, Idle, past
<1>9. CASE left = <<>>
  <2>1. job'.op = "idle" /\ job'.left = <<>> /\ conn' = "open"
    BY <1>7, <1>9 DEF Idle
  <2>2. Len(job.left) = 1
    <3>1. ~(Len(job.left) > 1)
      BY <1>3, <1>9 DEF RestOfTheJob
    <3> QED BY <1>b, <3>1, One
  <2>3. schema_version' = 3
    <3>1. CASE schema_version = 3
      BY <1>4, <3>1
    <3>2. CASE schema_version # 3
      <4>1. job.op = "migrate"
        BY <1>2, <3>2 DEF MetaInv
      <4>2. Head(job.left).do = "version3"
        BY <1>2, <2>2, <3>2, <4>1 DEF MetaInv, Migrates
      <4> QED BY <1>2, <4>2 DEF Execute
    <3> QED BY <3>1, <3>2
  <2> QED BY <1>2, <1>4, <1>6, <1>8, <2>1, <2>3 DEF MetaInv, past
<1>10. CASE left # <<>>
  <2>1. job'.op = job.op /\ job'.left = left /\ conn' = conn /\ Len(left) \in Nat \ {0} /\ DOMAIN left = 1 .. Len(left)
    BY <1>2, <1>3, <1>7, <1>10, EmptySeq, LenProperties DEF RestOfTheJob, Job
  <2>2. \A i \in DOMAIN left : Fits(left[i]) /\ Fits(left[i])'
    BY <1>2, <1>3, <1>5 DEF RestOfTheJob, Fits, past
  <2>3. job.op = "create" => Creates(left)'
    <3> SUFFICES ASSUME job.op = "create", NEW i \in DOMAIN left
                 PROVE  /\ left[i].do \in {"site", "starter"}
                        /\ left[i].do = "starter" => <<left[i].site, left[i].arg>> \notin removed'
      BY DEF Creates
    <3>1. Creates(job.left) /\ removed' = removed
      BY <1>2 DEF MetaInv, past
    <3>2. Head(job.left).do # "seed"
      <4>1. 1 \in DOMAIN job.left /\ Head(job.left) = job.left[1]
        BY <1>2
      <4> QED BY <3>1, <4>1 DEF Creates
    <3>3. PICK j \in DOMAIN job.left : left[i] = job.left[j]
      BY <1>3, <3>2 DEF RestOfTheJob
    <3> QED BY <3>1, <3>3 DEF Creates
  <2>4. job.op = "delete" => Deletes(left)'
    BY <1>2, <1>3 DEF RestOfTheJob, MetaInv, Deletes
  <2>5. job.op = "migrate" => Migrates(left)'
    <3> SUFFICES ASSUME job.op = "migrate" PROVE Migrates(left)'
      OBVIOUS
    <3>1. Migrates(job.left)
      BY DEF MetaInv
    <3>2. \A i \in DOMAIN left : left[i].do \in {"drop", "seed", "starter", "version2", "version3"}
      BY <1>3, <3>1 DEF RestOfTheJob, Migrates
    <3>3. \A i \in DOMAIN left : i < Len(left) => left[i].do # "version3"
      BY <1>2, <1>3, <2>1, <3>1 DEF RestOfTheJob, Migrates
    <3>4. schema_version' = 3 => \A i \in DOMAIN left : left[i].do = "drop"
      <4>1. CASE schema_version = 3
        BY <1>2, <1>3, <3>1, <4>1 DEF RestOfTheJob, Migrates
      <4>2. CASE schema_version # 3
        <5>1. schema_version' = 3 => Head(job.left).do = "version3"
          BY <1>2, <4>2 DEF Execute
        <5>2. Head(job.left).do = "version3" => Len(job.left) = 1
          <6>1. 1 < Len(job.left) => job.left[1].do # "version3"
            BY <1>2, <3>1 DEF Migrates
          <6>2. Head(job.left).do = "version3" => ~(Len(job.left) > 1)
            BY <1>b, <6>1
          <6> QED BY <1>b, <6>2, One
        <5> QED BY <1>3, <1>10, <5>1, <5>2 DEF RestOfTheJob
      <4> QED BY <4>1, <4>2
    <3>5. schema_version' # 3 => left[Len(left)].do = "version3"
      <4>1. schema_version' # 3 => job.left[Len(job.left)].do = "version3"
        BY <1>4, <3>1 DEF Migrates
      <4>2. Len(job.left) > 1 => left[Len(left)] = job.left[Len(job.left)]
        BY <1>3 DEF RestOfTheJob
      <4>3. schema_version' # 3 => Len(job.left) > 1
        BY <1>2, <1>3, <1>10, <4>1 DEF RestOfTheJob
      <4> QED BY <4>1, <4>2, <4>3
    <3> QED BY <3>2, <3>3, <3>4, <3>5 DEF Migrates
  <2>6. conn' = "open" => schema_version' = 3
    BY <1>4, <2>1 DEF MetaInv
  <2> QED BY <1>2, <1>4, <1>6, <1>8, <2>1, <2>2, <2>3, <2>4, <2>5, <2>6
       DEF MetaInv, past, Creates, Deletes, Migrates
<1> QED BY <1>9, <1>10
-----------------------------------------------------------------------------
(* The other actions. *)

LEMMA CutShortTyped == ASSUME MetaTypeOK PROVE CutShort \subseteq SiteId
<1>1. CASE job.op = "idle"
  BY <1>1 DEF CutShort
<1>2. CASE job.op # "idle"
  <2>1. \A i \in DOMAIN job.left : job.left[i].site \in SiteId \cup {"none"}
    <3>1. \A i \in DOMAIN job.left : job.left[i] \in Statement
      BY DEF MetaTypeOK, Job
    <3> QED BY <3>1 DEF Statement
  <2> QED BY <2>1 DEF CutShort
<1> QED BY <1>1, <1>2

(* An operation that ends, done or not, leaves nothing behind in the job.  *)
LEMMA IdleTyped == Idle \in Job /\ Idle.op = "idle" /\ Idle.left = <<>> /\ DOMAIN Idle.left = {}
  BY DEF Idle, Job

LEMMA StatementFailsKeeps == ASSUME MetaInv, StatementFails PROVE MetaInv'
<1>1. MetaTypeOK'
  BY CutShortTyped, IdleTyped, MetaBounds DEF MetaInv, MetaTypeOK, StatementFails, tables
<1> QED BY <1>1, IdleTyped DEF MetaInv, StatementFails, tables

LEMMA CrashKeeps == ASSUME MetaInv, Crash PROVE MetaInv'
<1>1. MetaTypeOK'
  BY CutShortTyped, IdleTyped, MetaBounds DEF MetaInv, MetaTypeOK, Crash, tables
<1> QED BY <1>1, IdleTyped DEF MetaInv, Crash, tables

LEMMA Last == \A i, a, b \in Nat : \A c \in {0, 1} : i < a + b + c => i <= a + b
  OBVIOUS

LEMMA Lone == \A i \in Nat : \A n \in {0, 1} : i <= n => ~(i > 1)
  OBVIOUS

LEMMA Joined ==
    ASSUME NEW p \in Seq(Statement), NEW q \in Seq(Statement), NEW r \in Seq(Statement),
           NEW m, m = (p \o q) \o r
    PROVE  /\ m \in Seq(Statement) /\ Len(m) = Len(p) + Len(q) + Len(r) /\ DOMAIN m = 1 .. Len(m)
           /\ Len(p) \in Nat /\ Len(q) \in Nat /\ Len(r) \in Nat
           /\ \A i \in 1 .. Len(m) :
                 \/ i \in 1 .. Len(p) /\ m[i] = p[i]
                 \/ /\ i > Len(p) /\ i <= Len(p) + Len(q) /\ i - Len(p) \in 1 .. Len(q)
                    /\ m[i] = q[i - Len(p)]
                 \/ /\ i > Len(p) + Len(q) /\ i - (Len(p) + Len(q)) \in 1 .. Len(r)
                    /\ m[i] = r[i - (Len(p) + Len(q))]
<1> DEFINE pq == p \o q
<1>1. Len(p) \in Nat /\ Len(q) \in Nat /\ Len(r) \in Nat
  BY LenProperties
<1>2. /\ pq \in Seq(Statement) /\ Len(pq) = Len(p) + Len(q)
      /\ \A i \in 1 .. Len(p) + Len(q) : pq[i] = IF i <= Len(p) THEN p[i] ELSE q[i - Len(p)]
  BY ConcatProperties
<1> HIDE DEF pq
<1>a. pq \in Seq(Statement) /\ r \in Seq(Statement)
  BY <1>2
<1>3. /\ pq \o r \in Seq(Statement) /\ Len(pq \o r) = Len(pq) + Len(r)
      /\ \A i \in 1 .. Len(pq) + Len(r) :
            (pq \o r)[i] = IF i <= Len(pq) THEN pq[i] ELSE r[i - Len(pq)]
  BY <1>a, ConcatProperties
<1>4. m = pq \o r
  BY DEF pq
<1>5. /\ m \in Seq(Statement) /\ Len(m) = Len(p) + Len(q) + Len(r) /\ DOMAIN m = 1 .. Len(m)
      /\ \A i \in 1 .. Len(m) :
            m[i] = IF i <= Len(p) + Len(q) THEN pq[i] ELSE r[i - (Len(p) + Len(q))]
  BY <1>1, <1>2, <1>3, <1>4, LenProperties
<1>6. ASSUME NEW i \in 1 .. Len(m)
      PROVE  \/ i \in 1 .. Len(p) /\ m[i] = p[i]
             \/ /\ i > Len(p) /\ i <= Len(p) + Len(q) /\ i - Len(p) \in 1 .. Len(q)
                /\ m[i] = q[i - Len(p)]
             \/ /\ i > Len(p) + Len(q) /\ i - (Len(p) + Len(q)) \in 1 .. Len(r)
                /\ m[i] = r[i - (Len(p) + Len(q))]
  <2>1. CASE i <= Len(p)
    BY <1>1, <1>2, <1>5, <2>1
  <2>2. CASE i > Len(p) /\ i <= Len(p) + Len(q)
    <3>1. i - Len(p) \in 1 .. Len(q) /\ m[i] = q[i - Len(p)]
      BY <1>1, <1>2, <1>5, <2>2
    <3> QED BY <2>2, <3>1
  <2>3. CASE i > Len(p) + Len(q)
    BY <1>1, <1>5, <2>3
  <2> QED BY <1>1, <1>5, <2>1, <2>2, <2>3
<1> QED BY <1>1, <1>5, <1>6

LEMMA MigrationsTyped ==
    ASSUME MetaTypeOK
    PROVE  /\ Migrations \in Seq(Statement)
           /\ \A i \in DOMAIN Migrations : Fits(Migrations[i])
           /\ Migrates(Migrations)
           /\ Migrations = <<>> => schema_version = 3
           /\ \A i \in DOMAIN Migrations : /\ Migrations[i].do # "starter"
                                           /\ i > 1 => Migrations[i].do # "drop"
           /\ channel_id => Migrations # <<>> /\ Migrations[1].do = "drop"
<1> DEFINE drop == Do("drop", "none", "none")
           seed == Do("seed", "none", "none")
           two == Do("version2", "none", "none")
           three == Do("version3", "none", "none")
           p == IF channel_id THEN <<drop>> ELSE <<>>
           q == IF schema_version < 2 THEN <<seed, two>> ELSE <<>>
           r == IF schema_version < 3 THEN <<three>> ELSE <<>>
           m == Migrations
<1>1. /\ drop \in Statement /\ seed \in Statement /\ two \in Statement /\ three \in Statement
      /\ drop.do = "drop" /\ seed.do = "seed" /\ two.do = "version2" /\ three.do = "version3"
  BY DoTyped
<1>2. schema_version \in 1 .. 3 /\ channel_id \in BOOLEAN
  BY DEF MetaTypeOK
<1>3. m = (p \o q) \o r
  BY DEF Migrations
<1> HIDE DEF drop, seed, two, three, m
<1>4. p \in Seq(Statement) /\ Len(p) \in {0, 1} /\ \A i \in 1 .. Len(p) : p[i] = drop
  BY <1>1
<1>5. /\ q \in Seq(Statement) /\ Len(q) \in {0, 2} /\ \A i \in 1 .. Len(q) : q[i] \in {seed, two}
      /\ schema_version = 3 => Len(q) = 0
  BY <1>1, <1>2
<1>6. /\ r \in Seq(Statement) /\ Len(r) \in {0, 1} /\ \A i \in 1 .. Len(r) : r[i] = three
      /\ schema_version = 3 <=> Len(r) = 0
  BY <1>1, <1>2
<1>a. channel_id => Len(p) = 1
  OBVIOUS
<1> HIDE DEF p, q, r
<1>7. /\ m \in Seq(Statement) /\ Len(m) = Len(p) + Len(q) + Len(r) /\ DOMAIN m = 1 .. Len(m)
      /\ \A i \in 1 .. Len(m) :
            \/ i <= Len(p) /\ m[i] = drop
            \/ i > Len(p) /\ i <= Len(p) + Len(q) /\ m[i] \in {seed, two}
            \/ i > Len(p) + Len(q) /\ Len(r) = 1 /\ m[i] = three
  BY <1>3, <1>4, <1>5, <1>6, Joined
<1>8. /\ \A i \in DOMAIN m : Fits(m[i])
      /\ \A i \in DOMAIN m : m[i].do \in {"drop", "seed", "starter", "version2", "version3"}
  BY <1>1, <1>7 DEF Fits
<1>9. \A i \in DOMAIN m : i < Len(m) => m[i].do # "version3"
  <2> SUFFICES ASSUME NEW i \in DOMAIN m, i < Len(m) PROVE m[i].do # "version3"
    OBVIOUS
  <2>1. i <= Len(p) + Len(q)
    <3>1. i \in Nat /\ Len(p) \in Nat /\ Len(q) \in Nat /\ Len(r) \in {0, 1}
      BY <1>4, <1>5, <1>6, <1>7
    <3>2. i < Len(p) + Len(q) + Len(r)
      BY <1>7
    <3> QED BY <3>1, <3>2, Last
  <2>2. m[i] \in {drop, seed, two}
    BY <1>4, <1>5, <1>7, <2>1
  <2> QED BY <1>1, <2>2
<1>10. schema_version = 3 => \A i \in DOMAIN m : m[i].do = "drop"
  <2> SUFFICES ASSUME schema_version = 3, NEW i \in DOMAIN m PROVE m[i].do = "drop"
    OBVIOUS
  <2>1. Len(q) = 0 /\ Len(r) = 0
    BY <1>5, <1>6
  <2>2. m[i] = drop
    BY <1>4, <1>7, <2>1
  <2> QED BY <1>1, <2>2
<1>11. schema_version # 3 => m[Len(m)].do = "version3"
  <2> SUFFICES ASSUME schema_version # 3 PROVE m[Len(m)].do = "version3"
    OBVIOUS
  <2>1. Len(r) = 1
    BY <1>6
  <2>2. m[Len(m)] = three
    BY <1>4, <1>5, <1>7, <2>1
  <2> QED BY <1>1, <2>2
<1>12. m = <<>> => schema_version = 3
  <2>1. m = <<>> => Len(m) = 0
    OBVIOUS
  <2> QED BY <1>4, <1>5, <1>6, <1>7, <2>1
<1>13. \A i \in DOMAIN m : m[i].do # "starter" /\ (i > 1 => m[i].do # "drop")
  <2> SUFFICES ASSUME NEW i \in DOMAIN m PROVE m[i].do # "starter" /\ (i > 1 => m[i].do # "drop")
    OBVIOUS
  <2>1. \/ i <= Len(p) /\ m[i] = drop
        \/ m[i] \in {seed, two, three}
    BY <1>7
  <2>2. i <= Len(p) => ~(i > 1)
    <3>1. i \in Nat /\ Len(p) \in {0, 1}
      BY <1>4, <1>7
    <3> QED BY <3>1, Lone
  <2> QED BY <1>1, <2>1, <2>2
<1>14. channel_id => m # <<>> /\ m[1].do = "drop"
  <2> SUFFICES ASSUME channel_id PROVE m # <<>> /\ m[1].do = "drop"
    OBVIOUS
  <2>1. Len(p) = 1 /\ Len(q) \in {0, 2} /\ Len(r) \in {0, 1}
    BY <1>5, <1>6, <1>a
  <2>2. 1 \in 1 .. Len(m) /\ ~(1 > Len(p)) /\ ~(1 > Len(p) + Len(q))
    <3>1. Len(m) = Len(p) + Len(q) + Len(r)
      BY <1>7
    <3> QED BY ONLY <2>1, <3>1
  <2>3. m[1] = drop
    BY <1>7, <2>2
  <2> QED BY <1>1, <1>7, <2>2, <2>3, EmptySeq
<1> QED BY <1>7, <1>8, <1>9, <1>10, <1>11, <1>12, <1>13, <1>14 DEF m, Migrates

LEMMA OpenKeeps == ASSUME MetaInv, Open PROVE MetaInv'
<1>1. MetaTypeOK
  BY DEF MetaInv
<1>2. CASE Migrations = <<>>
  <2>1. schema_version = 3 /\ conn' = "open" /\ job' = job /\ job = Idle /\ UNCHANGED <<tables, past>>
    BY <1>1, <1>2, MigrationsTyped DEF Open
  <2>2. MetaTypeOK'
    BY <1>1, <2>1 DEF MetaTypeOK, tables, past
  <2> QED BY <2>1, <2>2, IdleTyped DEF MetaInv, tables, past
<1>3. CASE Migrations # <<>>
  <2>1. /\ job' = [op |-> "migrate", left |-> Migrations]
        /\ UNCHANGED <<tables, past>> /\ UNCHANGED conn
    BY <1>3 DEF Open
  <2>2. job' \in Job /\ job'.op = "migrate" /\ job'.left = Migrations
    BY <1>1, <2>1, MigrationsTyped DEF Job
  <2>3. MetaTypeOK'
    BY <1>1, <1>3, <2>1, <2>2 DEF MetaTypeOK, tables, past
  <2>4. PICK left : left = Migrations
    OBVIOUS
  <2>5. job'.left = left /\ Migrates(left) /\ (\A i \in DOMAIN left : Fits(left[i]))
    BY <1>1, <1>3, <2>2, <2>4, MigrationsTyped
  <2>6. Migrates(left)' /\ \A i \in DOMAIN left : Fits(left[i])'
    BY <2>1, <2>5 DEF Migrates, Fits, tables, past
  <2> QED BY <2>1, <2>2, <2>3, <2>5, <2>6 DEF MetaInv, Migrates, tables, past
<1> QED BY <1>2, <1>3

LEMMA create_site_Keeps == ASSUME MetaInv, NEW s \in SiteId, create_site(s) PROVE MetaInv'
<1> DEFINE site == Do("site", s, "none")
           left == <<site>> \o StarterRows(s)
<1>1. MetaTypeOK /\ conn = "open" /\ schema_version = 3 /\ s \notin born
  BY DEF MetaInv, create_site, Ready
<1>2. site \in Statement /\ site.do = "site" /\ site.site = s
  BY DoTyped
<1>3. /\ StarterRows(s) \in Seq(Statement) /\ Len(StarterRows(s)) = 3
      /\ \A i \in 1 .. 3 : /\ StarterRows(s)[i].do = "starter" /\ StarterRows(s)[i].site = s
                           /\ StarterRows(s)[i].arg \in Starter
  BY StarterRowsTyped
<1> HIDE DEF site
<1> DEFINE one == <<site>>
           rows == StarterRows(s)
<1>4. one \in Seq(Statement) /\ Len(one) = 1 /\ one[1] = site
  BY <1>2
<1> HIDE DEF one, rows
<1>5. /\ left \in Seq(Statement) /\ Len(left) = 4
      /\ \A i \in 1 .. 4 : left[i] = IF i <= 1 THEN one[i] ELSE StarterRows(s)[i - 1]
  <2>1. rows \in Seq(Statement) /\ Len(rows) = 3
    BY <1>3 DEF rows
  <2>2. /\ one \o rows \in Seq(Statement) /\ Len(one \o rows) = Len(one) + Len(rows)
        /\ \A i \in 1 .. Len(one) + Len(rows) :
              (one \o rows)[i] = IF i <= Len(one) THEN one[i] ELSE rows[i - Len(one)]
    BY <1>4, <2>1, ConcatProperties
  <2>3. left = one \o rows
    BY DEF one, rows
  <2> HIDE DEF left
  <2> QED BY <1>4, <2>1, <2>2, <2>3 DEF rows
<1>6. DOMAIN left = 1 .. 4 /\ left # <<>>
  BY <1>5, LenProperties, EmptySeq
<1> HIDE DEF left
<1>7. ASSUME NEW i \in DOMAIN left
      PROVE  /\ left[i].do \in {"site", "starter"} /\ left[i].site = s
             /\ left[i].do = "starter" => left[i].arg \in Starter
  <2>1. CASE i = 1
    BY <1>2, <1>4, <1>5, <2>1
  <2>2. CASE i # 1
    <3>1. i - 1 \in 1 .. 3 /\ left[i] = StarterRows(s)[i - 1]
      BY <1>5, <1>6, <2>2
    <3> QED BY <1>3, <3>1
  <2> QED BY <2>1, <2>2
<1>8. /\ born' = born \cup {s} /\ job' = [op |-> "create", left |-> left]
      /\ UNCHANGED <<tables, conn, removed, exempt, faults, edits>>
  BY DEF create_site, left, site
<1>9. job' \in Job /\ job'.op = "create" /\ job'.left = left
  BY <1>5, <1>8 DEF Job
<1>10. MetaTypeOK'
  BY <1>1, <1>6, <1>8, <1>9 DEF MetaTypeOK, tables
<1>11. Creates(left)'
  BY <1>1, <1>7, <1>8 DEF Creates, MetaInv
<1>12. \A i \in DOMAIN left : Fits(left[i])'
  BY <1>7, <1>8 DEF Fits
<1>13. /\ sites' \subseteq born' /\ (\A a \in alerts' : a[1] \in born')
       /\ removed' \subseteq born' \X Starter /\ removed' \cap alerts' = {}
  BY <1>8 DEF MetaInv, tables
<1> QED BY <1>1, <1>8, <1>9, <1>10, <1>11, <1>12, <1>13 DEF MetaInv, Creates, tables

LEMMA delete_site_Keeps == ASSUME MetaInv, NEW s \in SiteId, delete_site(s) PROVE MetaInv'
<1> DEFINE left == <<Do("fires", s, "none"), Do("alerts", s, "none"),
                     Do("children", s, "funnels"), Do("children", s, "alert_channels"),
                     Do("children", s, "digest_subscriptions"),
                     Do("children", s, "api_keys"), Do("row", s, "none")>>
<1>1. MetaTypeOK /\ conn = "open" /\ job = Idle
  BY DEF MetaInv, delete_site, Ready
<1>2. /\ left \in Seq(Statement) /\ left # <<>> /\ DOMAIN left = 1 .. 7
      /\ \A i \in 1 .. 7 : left[i].do \in {"fires", "alerts", "children", "row"}
  BY DoTyped DEF Do, Statement, Table
<1>3. job' = [op |-> "delete", left |-> left] /\ UNCHANGED <<tables, conn, past>>
  BY DEF delete_site
<1> HIDE DEF left
<1>4. job' \in Job /\ job'.op = "delete" /\ job'.left = left
  BY <1>2, <1>3 DEF Job
<1>5. MetaTypeOK'
  BY <1>1, <1>2, <1>3, <1>4 DEF MetaTypeOK, tables, past
<1>6. Deletes(left) /\ \A i \in DOMAIN left : Fits(left[i])'
  BY <1>2 DEF Deletes, Fits
<1>7. /\ conn' = "open" /\ schema_version' = 3
      /\ sites' \subseteq born' /\ (\A a \in alerts' : a[1] \in born')
      /\ removed' \subseteq born' \X Starter /\ removed' \cap alerts' = {}
  BY <1>1, <1>3 DEF MetaInv, tables, past
<1>8. Deletes(left)'
  BY <1>6 DEF Deletes
<1> QED BY <1>4, <1>5, <1>6, <1>7, <1>8 DEF MetaInv

(* An edit runs while no operation does, and the schema has version 3. *)
LEMMA EditsKeep ==
    ASSUME MetaInv, Edit, sites' = sites, schema_version' = schema_version, channel_id' = channel_id,
           conn' = conn, job' = job, born' = born, exempt' = exempt, faults' = faults,
           alerts' \subseteq AlertRow, fires' \subseteq AlertRow, children' \subseteq ChildRow,
           \A a \in alerts' : a[1] \in born,
           removed' \subseteq AlertRow, removed' \subseteq born \X Starter, removed' \cap alerts' = {}
    PROVE  MetaInv'
<1>1. schema_version = 3 /\ job = Idle /\ edits' \in 0 .. MaxEdits
  BY MetaBounds DEF MetaInv, MetaTypeOK, Edit, Ready
<1>2. MetaTypeOK'
  BY <1>1 DEF MetaInv, MetaTypeOK
<1>3. job'.op = "idle" /\ DOMAIN job'.left = {}
  BY <1>1, IdleTyped
<1>4. /\ conn' = "open" => schema_version' = 3
      /\ schema_version' # 3 => removed' = {}
      /\ sites' \subseteq born' /\ (\A a \in alerts' : a[1] \in born')
      /\ removed' \subseteq born' \X Starter /\ removed' \cap alerts' = {}
  BY <1>1 DEF MetaInv
<1> QED BY <1>2, <1>3, <1>4 DEF MetaInv

LEMMA InsertKeeps ==
    ASSUME MetaInv, NEW s \in SiteId, NEW t \in Table, Insert(s, t) PROVE MetaInv'
<1>1. children' \subseteq ChildRow
  BY DEF Insert, MetaInv, MetaTypeOK, ChildRow
<1> QED BY <1>1, EditsKeep DEF Insert, MetaInv, MetaTypeOK

LEMMA DeleteKeeps ==
    ASSUME MetaInv, NEW s \in SiteId, NEW t \in Table, Delete(s, t) PROVE MetaInv'
<1>1. children' \subseteq ChildRow
  BY DEF Delete, MetaInv, MetaTypeOK
<1> QED BY <1>1, EditsKeep DEF Delete, MetaInv, MetaTypeOK

LEMMA create_analytics_alert_Keeps ==
    ASSUME MetaInv, NEW s \in SiteId, create_analytics_alert(s) PROVE MetaInv'
<1>1. alerts' = alerts \cup {<<s, Own>>} /\ alerts' \subseteq AlertRow /\ removed' = removed
      /\ \A a \in alerts' : a[1] \in born
  BY DEF create_analytics_alert, MetaInv, MetaTypeOK, AlertRow
<1>2. <<s, Own>> \notin removed
  BY DEF MetaInv, Own, Starter
<1> QED BY <1>1, <1>2, EditsKeep DEF create_analytics_alert, MetaInv, MetaTypeOK

LEMMA delete_analytics_alert_Keeps ==
    ASSUME MetaInv, NEW a \in AlertRow, delete_analytics_alert(a) PROVE MetaInv'
<1>1. /\ alerts' = alerts \ {a} /\ a \in alerts
      /\ removed' = IF a[2] \in Starter THEN removed \cup {a} ELSE removed
  BY DEF delete_analytics_alert
<1>2. alerts' \subseteq AlertRow /\ removed' \subseteq AlertRow /\ removed' \cap alerts' = {}
  BY <1>1 DEF MetaInv, MetaTypeOK
<1>3. removed' \subseteq born \X Starter
  BY <1>1 DEF MetaInv, MetaTypeOK, AlertRow
<1> QED BY <1>1, <1>2, <1>3, EditsKeep DEF delete_analytics_alert, MetaInv, MetaTypeOK

LEMMA record_analytics_alert_fire_Keeps ==
    ASSUME MetaInv, NEW a \in AlertRow, record_analytics_alert_fire(a) PROVE MetaInv'
<1>1. fires' \subseteq AlertRow
  BY DEF record_analytics_alert_fire, MetaInv, MetaTypeOK
<1> QED BY <1>1, EditsKeep DEF record_analytics_alert_fire, MetaInv, MetaTypeOK
-----------------------------------------------------------------------------
LEMMA MetaInitInv == ASSUME MetaInit PROVE MetaInv
<1>1. PICK S \in SUBSET sites :
        /\ alerts = S \X {Own} /\ schema_version \in 1 .. 2
        /\ exempt = IF schema_version = 1 THEN S ELSE sites
  BY DEF MetaInit
<1>2. MetaTypeOK
  BY <1>1, IdleTyped, MetaBounds DEF MetaInit, MetaTypeOK, AlertRow
<1>3. sites \subseteq born /\ (\A a \in alerts : a[1] \in born) /\ removed = {}
  BY <1>1 DEF MetaInit
<1> QED BY <1>2, <1>3, IdleTyped DEF MetaInit, MetaInv

LEMMA MetaNextInv == ASSUME MetaInv, [MetaNext]_metaVars PROVE MetaInv'
<1>1. CASE RunStatement
  BY <1>1, RunStatementKeeps
<1>2. CASE StatementFails
  BY <1>2, StatementFailsKeeps
<1>3. CASE Crash
  BY <1>3, CrashKeeps
<1>4. CASE Open
  BY <1>4, OpenKeeps
<1>5. CASE \E s \in SiteId :
              \/ create_site(s) \/ delete_site(s)
              \/ create_funnel(s) \/ delete_funnel(s)
              \/ create_alert_channel(s) \/ delete_alert_channel(s)
              \/ upsert_digest_subscription(s) \/ delete_digest_subscription(s)
              \/ create_api_key(s) \/ delete_api_key(s)
              \/ create_analytics_alert(s)
  <2>1. PICK s \in SiteId :
              \/ create_site(s) \/ delete_site(s) \/ create_analytics_alert(s)
              \/ \E t \in Table : Insert(s, t) \/ Delete(s, t)
    BY <1>5 DEF Table, create_funnel, delete_funnel, create_alert_channel, delete_alert_channel,
         upsert_digest_subscription, delete_digest_subscription, create_api_key, delete_api_key
  <2> QED BY <2>1, create_site_Keeps, delete_site_Keeps, create_analytics_alert_Keeps,
             InsertKeeps, DeleteKeeps
<1>6. CASE \E a \in AlertRow : delete_analytics_alert(a) \/ record_analytics_alert_fire(a)
  BY <1>6, delete_analytics_alert_Keeps, record_analytics_alert_fire_Keeps
<1>7. CASE UNCHANGED metaVars
  BY <1>7 DEF MetaInv, MetaTypeOK, Creates, Deletes, Migrates, Fits, metaVars, tables, past
<1> QED BY <1>1, <1>2, <1>3, <1>4, <1>5, <1>6, <1>7 DEF MetaNext

LEMMA MetaInvariance == MetaSpec => []MetaInv
<1>1. MetaInit => MetaInv
  BY MetaInitInv
<1>2. MetaInv /\ [MetaNext]_metaVars => MetaInv'
  BY MetaNextInv
<1> QED BY <1>1, <1>2, PTL DEF MetaSpec

(* meta.rs:170 "so deleting them later sticks": whatever crashes, refused  *)
(* statements and restarts come between, no starter alert that a user has  *)
(* deleted is written again; the seed can only run before anything could   *)
(* be deleted, and a new site's rows are of a ULID nobody had.             *)
THEOREM DeletionsStick == MetaSpec => []DeletedStartersStayAway
<1>1. MetaInv => DeletedStartersStayAway
  BY DEF MetaInv, DeletedStartersStayAway
<1> QED BY <1>1, MetaInvariance, PTL
-----------------------------------------------------------------------------
(* No statement is refused.                                                *)

(* The lists of the two operations on a site, and a list that has come to *)
(* its statement k.                                                        *)
Creation(s) == <<Do("site", s, "none"), Do("starter", s, "traffic_spike"),
                 Do("starter", s, "traffic_drop"), Do("starter", s, "new_referrer")>>
Deletion(s) == <<Do("fires", s, "none"), Do("alerts", s, "none"),
                 Do("children", s, "funnels"), Do("children", s, "alert_channels"),
                 Do("children", s, "digest_subscriptions"),
                 Do("children", s, "api_keys"), Do("row", s, "none")>>

From(left, plan, k, size) ==
    /\ k \in 1 .. size /\ Len(left) = size - k + 1
    /\ \A i \in 1 .. Len(left) : left[i] = plan[k + i - 1]

(* What the statements already run have made true for those to come.       *)
Made(s, k) ==
    /\ k > 1 => AlertsOf(s) \cap fires = {}
    /\ k > 2 => AlertsOf(s) = {}
    /\ k > 3 => <<s, "funnels">> \notin children
    /\ k > 4 => <<s, "alert_channels">> \notin children
    /\ k > 5 => <<s, "digest_subscriptions">> \notin children
    /\ k > 6 => <<s, "api_keys">> \notin children

Creating(left) ==
    \E s \in SiteId, k \in 1 .. 4 : From(left, Creation(s), k, 4) /\ (k > 1 => s \in sites)
Deleting(left) ==
    \E s \in SiteId, k \in 1 .. 7 : From(left, Deletion(s), k, 7) /\ Made(s, k)
Migrating(left) ==
    /\ \A i \in DOMAIN left : left[i].do = "starter" => left[i].site \in sites
    /\ \A i \in DOMAIN left : i > 1 => left[i].do # "drop"
    /\ channel_id => left[1].do = "drop"

PlanInv ==
    /\ conn = "open" => ~channel_id
    /\ job.op = "create" => Creating(job.left)
    /\ job.op = "delete" => Deleting(job.left)
    /\ job.op = "migrate" => Migrating(job.left)

LEMMA CreationTyped ==
    ASSUME NEW s \in SiteId, NEW k \in 1 .. 4
    PROVE  /\ Creation(s)[k].site = s
           /\ Creation(s)[k].do = IF k = 1 THEN "site" ELSE "starter"
<1> DEFINE row(i) == Creation(s)[i]
<1>1. /\ row(1).do = "site" /\ row(1).site = s /\ row(2).do = "starter" /\ row(2).site = s
      /\ row(3).do = "starter" /\ row(3).site = s /\ row(4).do = "starter" /\ row(4).site = s
  BY DEF Creation, Do
<1> HIDE DEF row
<1>2. k = 1 \/ k = 2 \/ k = 3 \/ k = 4
  OBVIOUS
<1>3. row(k).site = s /\ row(k).do = IF k = 1 THEN "site" ELSE "starter"
  BY <1>1, <1>2
<1> QED BY <1>3 DEF row

LEMMA DeletionTyped ==
    ASSUME NEW s \in SiteId, NEW k \in 1 .. 7
    PROVE  LET row == Deletion(s)[k] IN
           /\ row.site = s
           /\ k = 1 => row.do = "fires"
           /\ k = 2 => row.do = "alerts"
           /\ k = 3 => row.do = "children" /\ row.arg = "funnels"
           /\ k = 4 => row.do = "children" /\ row.arg = "alert_channels"
           /\ k = 5 => row.do = "children" /\ row.arg = "digest_subscriptions"
           /\ k = 6 => row.do = "children" /\ row.arg = "api_keys"
           /\ k = 7 => row.do = "row"
<1> DEFINE row(i) == Deletion(s)[i]
<1>1. /\ row(1) = Do("fires", s, "none") /\ row(2) = Do("alerts", s, "none")
      /\ row(3) = Do("children", s, "funnels") /\ row(4) = Do("children", s, "alert_channels")
      /\ row(5) = Do("children", s, "digest_subscriptions")
      /\ row(6) = Do("children", s, "api_keys") /\ row(7) = Do("row", s, "none")
  BY DEF Deletion
<1>2. k = 1 \/ k = 2 \/ k = 3 \/ k = 4 \/ k = 5 \/ k = 6 \/ k = 7
  OBVIOUS
<1> HIDE DEF row
<1>3. row(k).site = s
  BY <1>1, <1>2 DEF Do
<1>4. /\ row(1).do = "fires" /\ row(2).do = "alerts" /\ row(7).do = "row"
      /\ row(3).do = "children" /\ row(4).do = "children" /\ row(5).do = "children"
      /\ row(6).do = "children" /\ row(3).arg = "funnels" /\ row(4).arg = "alert_channels"
      /\ row(5).arg = "digest_subscriptions" /\ row(6).arg = "api_keys"
  BY <1>1 DEF Do
<1> QED BY <1>3, <1>4 DEF row

LEMMA NextOfPlan ==
    ASSUME NEW left \in Seq(Statement), NEW size \in Nat, NEW k \in 1 .. size, NEW plan,
           From(left, plan, k, size)
    PROVE  /\ left # <<>> /\ Head(left) = plan[k]
           /\ Tail(left) # <<>> => k + 1 \in 1 .. size /\ From(Tail(left), plan, k + 1, size)
<1> DEFINE n == Len(left)
           tail == Tail(left)
<1>1. n = size - k + 1 /\ n \in Nat \ {0} /\ left # <<>>
  BY LenProperties, EmptySeq DEF From
<1>2. /\ Head(left) = left[1] /\ tail \in Seq(Statement) /\ Len(tail) = n - 1
      /\ \A i \in 1 .. Len(tail) : tail[i] = left[i + 1]
  BY <1>1, HeadTailProperties
<1>3. \A i \in 1 .. n : left[i] = plan[k + i - 1]
  BY DEF From
<1> HIDE DEF n, tail
<1>4. Head(left) = plan[k]
  <2>1. 1 \in 1 .. n /\ k + 1 - 1 = k
    BY <1>1
  <2> QED BY <1>2, <1>3, <2>1
<1>5. ASSUME tail # <<>> PROVE k + 1 \in 1 .. size /\ From(tail, plan, k + 1, size)
  <2>1. Len(tail) # 0
    BY <1>2, <1>5, EmptySeq
  <2>2. k + 1 \in 1 .. size /\ Len(tail) = size - (k + 1) + 1
    BY <1>1, <1>2, <2>1
  <2>3. ASSUME NEW i \in 1 .. Len(tail) PROVE tail[i] = plan[(k + 1) + i - 1]
    <3>1. i + 1 \in 1 .. n /\ k + (i + 1) - 1 = (k + 1) + i - 1
      BY <1>1, <1>2
    <3>2. tail[i] = plan[k + (i + 1) - 1]
      BY <1>2, <1>3, <3>1
    <3> QED BY <3>1, <3>2
  <2> QED BY <2>2, <2>3 DEF From
<1> QED BY <1>1, <1>4, <1>5 DEF tail

(* The plans answer every constraint.                                      *)
LEMMA PlansAreAccepted == ASSUME MetaInv, PlanInv PROVE NoStatementIsRefused
<1> SUFFICES ASSUME job.op # "idle" PROVE ~Refused(Head(job.left))
  BY DEF NoStatementIsRefused
<1> DEFINE left == job.left
<1>1. /\ job.op \in {"create", "delete", "migrate"} /\ MetaTypeOK
      /\ left \in Seq(Statement) /\ Head(left) = left[1] /\ 1 \in DOMAIN left
      /\ children \subseteq ChildRow /\ (job.op \in {"create", "delete"} => conn = "open")
  BY HeadOfJob DEF MetaInv, MetaTypeOK, Job
<1>2. CASE job.op = "create"
  <2>1. PICK s \in SiteId, k \in 1 .. 4 : From(left, Creation(s), k, 4) /\ (k > 1 => s \in sites)
    BY <1>2 DEF PlanInv, Creating
  <2>2. Head(left) = Creation(s)[k]
    <3> DEFINE plan == Creation(s)
               size == 4
    <3>1. left \in Seq(Statement) /\ size \in Nat /\ k \in 1 .. size /\ From(left, plan, k, size)
      BY <1>1, <2>1
    <3> HIDE DEF left, plan, size
    <3>2. Head(left) = plan[k]
      BY ONLY <3>1, NextOfPlan
    <3> QED BY <3>2 DEF plan
  <2>3. /\ Head(left).site = s /\ (k = 1 => Head(left).do = "site")
        /\ k # 1 => Head(left).do = "starter" /\ s \in sites
    BY <2>1, <2>2, CreationTyped
  <2> QED BY <1>1, <1>2, <2>3 DEF Refused, PlanInv
<1>3. CASE job.op = "delete"
  <2>1. PICK s \in SiteId, k \in 1 .. 7 : From(left, Deletion(s), k, 7) /\ Made(s, k)
    BY <1>3 DEF PlanInv, Deleting
  <2>2. Head(left) = Deletion(s)[k]
    <3> DEFINE plan == Deletion(s)
               size == 7
    <3>1. left \in Seq(Statement) /\ size \in Nat /\ k \in 1 .. size /\ From(left, plan, k, size)
      BY <1>1, <2>1
    <3> HIDE DEF left, plan, size
    <3>2. Head(left) = plan[k]
      BY ONLY <3>1, NextOfPlan
    <3> QED BY <3>2 DEF plan
  <2>3. CASE k \in {1, 3, 4, 5, 6}
    <3>1. Head(left).do \in {"fires", "children"}
      BY <2>2, <2>3, DeletionTyped
    <3> QED BY <3>1 DEF Refused
  <2>4. CASE k = 2
    <3>1. Head(left).do = "alerts" /\ Head(left).site = s /\ AlertsOf(s) \cap fires = {}
      BY <2>1, <2>2, <2>4, DeletionTyped DEF Made
    <3> QED BY <3>1 DEF Refused
  <2>5. CASE k = 7
    <3>1. Head(left).do = "row" /\ Head(left).site = s /\ AlertsOf(s) = {}
      BY <2>1, <2>2, <2>5, DeletionTyped DEF Made
    <3>2. \A t \in Table : <<s, t>> \notin children
      BY <2>1, <2>5 DEF Made, Table
    <3>3. \A c \in children : c[1] # s
      BY <1>1, <3>2 DEF ChildRow
    <3> QED BY <3>1, <3>3 DEF Refused
  <2> QED BY <2>1, <2>3, <2>4, <2>5
<1>4. CASE job.op = "migrate"
  <2>1. Migrating(left) /\ Migrates(left)
    BY <1>4 DEF PlanInv, MetaInv
  <2>2. Head(left).do \notin {"alerts", "row"}
    BY <1>1, <2>1 DEF Migrates
  <2>3. Head(left).do = "starter" => Head(left).site \in sites /\ ~channel_id
    BY <1>1, <2>1 DEF Migrating
  <2> QED BY <2>2, <2>3 DEF Refused
<1> QED BY <1>1, <1>2, <1>3, <1>4

(* One statement of the deletion of s makes one more thing true, and takes *)
(* none back.                                                              *)
LEMMA OneMoreMade ==
    ASSUME MetaTypeOK, NEW s \in SiteId, NEW k \in 1 .. 6, NEW st, st = Deletion(s)[k],
           Execute(st), Made(s, k)
    PROVE  Made(s, k + 1)'
<1>1. /\ st.site = s
      /\ k = 1 => st.do = "fires"
      /\ k = 2 => st.do = "alerts"
      /\ k = 3 => st.do = "children" /\ st.arg = "funnels"
      /\ k = 4 => st.do = "children" /\ st.arg = "alert_channels"
      /\ k = 5 => st.do = "children" /\ st.arg = "digest_subscriptions"
      /\ k = 6 => st.do = "children" /\ st.arg = "api_keys"
  BY DeletionTyped
<1>2. k = 1 \/ k = 2 \/ k = 3 \/ k = 4 \/ k = 5 \/ k = 6
  OBVIOUS
<1>3. alerts' \subseteq alerts /\ fires' \subseteq fires /\ children' \subseteq children
  <2>1. st.do \in {"fires", "alerts", "children"}
    BY <1>1, <1>2
  <2> QED BY <2>1 DEF Execute
<1>4. AlertsOf(s)' \subseteq AlertsOf(s)
  BY <1>3 DEF AlertsOf
<1>5. /\ k > 1 => (AlertsOf(s) \cap fires = {})'
      /\ k > 2 => (AlertsOf(s) = {})'
      /\ k > 3 => <<s, "funnels">> \notin children'
      /\ k > 4 => <<s, "alert_channels">> \notin children'
      /\ k > 5 => <<s, "digest_subscriptions">> \notin children'
  BY <1>3, <1>4 DEF Made
<1>6. k = 1 => (AlertsOf(s) \cap fires = {})'
  BY <1>1 DEF Execute, AlertsOf
<1>7. k = 2 => (AlertsOf(s) = {})'
  BY <1>1 DEF Execute, AlertsOf
<1>8. /\ k = 3 => <<s, "funnels">> \notin children'
      /\ k = 4 => <<s, "alert_channels">> \notin children'
      /\ k = 5 => <<s, "digest_subscriptions">> \notin children'
      /\ k = 6 => <<s, "api_keys">> \notin children'
  BY <1>1 DEF Execute
<1>9. \A n \in 1 .. 6 : k + 1 > n => k > n \/ k = n
  OBVIOUS
<1> QED BY <1>5, <1>6, <1>7, <1>8, <1>9 DEF Made

LEMMA RunKeepsPlan == ASSUME MetaInv, PlanInv, RunStatement PROVE PlanInv'
<1> DEFINE head == Head(job.left)
<1>1. PICK more \in Unfolded :
        LET left == more \o Tail(job.left)
        IN  /\ job' = IF left = <<>> THEN Idle ELSE [job EXCEPT !.left = left]
            /\ conn' = IF left = <<>> THEN "open" ELSE conn
  BY DEF RunStatement
<1>a. PICK left : left = more \o Tail(job.left)
  OBVIOUS
<1>2. /\ job.op \in {"create", "delete", "migrate"} /\ job \in Job /\ MetaTypeOK
      /\ Execute(head) /\ head = job.left[1] /\ 1 \in DOMAIN job.left
      /\ job.left \in Seq(Statement) /\ Tail(job.left) \in Seq(Statement)
      /\ job.op \in {"create", "delete"} => conn = "open"
  BY HeadOfJob DEF RunStatement, MetaInv, MetaTypeOK, Job
<1>3. RestOfTheJob(left)
  BY <1>1, <1>a, RestOfJob DEF RunStatement
<1>4. ~channel_id'
  <2>1. channel_id => head.do = "drop"
    BY <1>2 DEF PlanInv, Migrating
  <2> QED BY <1>2, <2>1 DEF Execute
<1>5. head.do # "seed" => left = Tail(job.left)
  <2>1. head.do # "seed" => more = <<>>
    BY <1>1 DEF Unfolded
  <2> QED BY <1>2, <1>a, <2>1, ConcatEmptySeq
<1>6. CASE left = <<>>
  BY <1>1, <1>4, <1>6, <1>a, IdleTyped DEF PlanInv
<1>7. CASE left # <<>>
  <2>1. job'.op = job.op /\ job'.left = left
    BY <1>1, <1>2, <1>7, <1>a DEF Job
  <2>2. CASE job.op = "create"
    <3>1. PICK s \in SiteId, k \in 1 .. 4 : From(job.left, Creation(s), k, 4) /\ (k > 1 => s \in sites)
      BY <2>2 DEF PlanInv, Creating
    <3>2. /\ head = Creation(s)[k]
          /\ Tail(job.left) # <<>> => k + 1 \in 1 .. 4 /\ From(Tail(job.left), Creation(s), k + 1, 4)
      <4> DEFINE plan == Creation(s)
                 size == 4
                 all == job.left
      <4>1. all \in Seq(Statement) /\ size \in Nat /\ k \in 1 .. size /\ From(all, plan, k, size)
        BY <1>2, <3>1
      <4> HIDE DEF all, plan, size
      <4>2. /\ Head(all) = plan[k]
            /\ Tail(all) # <<>> => k + 1 \in 1 .. size /\ From(Tail(all), plan, k + 1, size)
        BY ONLY <4>1, NextOfPlan
      <4> QED BY <4>2 DEF all, plan, size
    <3>3. head.site = s /\ head.do = IF k = 1 THEN "site" ELSE "starter"
      BY <3>2, CreationTyped
    <3>4. From(left, Creation(s), k + 1, 4) /\ k + 1 \in 1 .. 4
      BY <1>5, <1>7, <3>2, <3>3
    <3>5. s \in sites'
      <4>1. CASE k = 1
        BY <1>2, <3>3, <4>1 DEF Execute
      <4>2. CASE k # 1
        BY <1>2, <3>1, <3>3, <4>2 DEF Execute
      <4> QED BY <4>1, <4>2
    <3>6. Creating(left)'
      BY <3>4, <3>5 DEF Creating, From, Creation, Do
    <3> QED BY <1>4, <2>1, <2>2, <3>6 DEF PlanInv
  <2>3. CASE job.op = "delete"
    <3>1. PICK s \in SiteId, k \in 1 .. 7 : From(job.left, Deletion(s), k, 7) /\ Made(s, k)
      BY <2>3 DEF PlanInv, Deleting
    <3>2. /\ head = Deletion(s)[k]
          /\ Tail(job.left) # <<>> => k + 1 \in 1 .. 7 /\ From(Tail(job.left), Deletion(s), k + 1, 7)
      <4> DEFINE plan == Deletion(s)
                 size == 7
                 all == job.left
      <4>1. all \in Seq(Statement) /\ size \in Nat /\ k \in 1 .. size /\ From(all, plan, k, size)
        BY <1>2, <3>1
      <4> HIDE DEF all, plan, size
      <4>2. /\ Head(all) = plan[k]
            /\ Tail(all) # <<>> => k + 1 \in 1 .. size /\ From(Tail(all), plan, k + 1, size)
        BY ONLY <4>1, NextOfPlan
      <4> QED BY <4>2 DEF all, plan, size
    <3>3. head.do # "seed"
      BY <1>2, <2>3 DEF MetaInv, Deletes
    <3>a. From(left, Deletion(s), k + 1, 7) /\ k + 1 \in 1 .. 7
      BY <1>5, <1>7, <3>2, <3>3
    <3>4. From(left, Deletion(s), k + 1, 7) /\ k + 1 \in 1 .. 7 /\ k \in 1 .. 6
      <4>1. k \in 1 .. 6
        BY <3>1, <3>a
      <4> QED BY <3>a, <4>1
    <3>5. Made(s, k + 1)'
      BY <1>2, <3>1, <3>2, <3>4, OneMoreMade
    <3>6. Deleting(left)'
      BY <3>4, <3>5 DEF Deleting, From, Deletion, Do
    <3> QED BY <1>4, <2>1, <2>3, <3>6 DEF PlanInv
  <2>4. CASE job.op = "migrate"
    <3>1. Migrates(job.left) /\ Migrating(job.left)
      BY <2>4 DEF MetaInv, PlanInv
    <3>2. sites' = sites
      BY <1>2, <3>1 DEF Migrates, Execute
    <3>3. \A i \in DOMAIN left : /\ left[i].do = "starter" => left[i].site \in sites
                                 /\ left[i].do # "drop"
      BY <1>3, <3>1 DEF RestOfTheJob, Migrating
    <3>4. Migrating(left)'
      BY <1>4, <3>2, <3>3 DEF Migrating
    <3> QED BY <1>4, <2>1, <2>4, <3>4 DEF PlanInv
  <2> QED BY <1>2, <2>2, <2>3, <2>4
<1> QED BY <1>6, <1>7

LEMMA MigrationsFit == ASSUME MetaTypeOK PROVE Migrating(Migrations)
<1>1. \A i \in DOMAIN Migrations : Migrations[i].do # "starter"
  BY MigrationsTyped
<1>2. \A i \in DOMAIN Migrations : i > 1 => Migrations[i].do # "drop"
  BY MigrationsTyped
<1>3. channel_id => Migrations[1].do = "drop"
  BY MigrationsTyped
<1> QED BY <1>1, <1>2, <1>3 DEF Migrating

LEMMA OpenKeepsPlan == ASSUME MetaInv, PlanInv, Open PROVE PlanInv'
<1>1. MetaTypeOK /\ job = Idle /\ conn = "closed" /\ UNCHANGED <<tables, past>>
  BY DEF MetaInv, Open
<1>2. CASE Migrations = <<>>
  <2>1. ~channel_id' /\ job' = job
    BY <1>1, <1>2, MigrationsTyped DEF Open, tables
  <2> QED BY <1>1, <2>1, IdleTyped DEF PlanInv
<1>3. CASE Migrations # <<>>
  <2>1. PICK left : left = Migrations
    OBVIOUS
  <2>2. job'.op = "migrate" /\ job'.left = left /\ conn' = conn
    BY <1>3, <2>1 DEF Open
  <2>3. Migrating(left)
    BY <1>1, <2>1, MigrationsFit
  <2>4. Migrating(left)'
    BY <1>1, <2>3 DEF Migrating, tables
  <2> QED BY <1>1, <2>2, <2>4 DEF PlanInv
<1> QED BY <1>2, <1>3

LEMMA Prefixed ==
    ASSUME NEW a \in Statement, NEW b \in Statement, NEW c \in Statement, NEW d \in Statement
    PROVE  <<a>> \o <<b, c, d>> = <<a, b, c, d>>
<1> DEFINE p == <<a>>
           q == <<b, c, d>>
           r == <<a, b, c, d>>
<1>1. /\ p \in Seq(Statement) /\ Len(p) = 1 /\ p[1] = a
      /\ q \in Seq(Statement) /\ Len(q) = 3 /\ q[1] = b /\ q[2] = c /\ q[3] = d
      /\ r \in Seq(Statement) /\ Len(r) = 4 /\ r[1] = a /\ r[2] = b /\ r[3] = c /\ r[4] = d
  OBVIOUS
<1> HIDE DEF p, q, r
<1>2. /\ p \o q \in Seq(Statement) /\ Len(p \o q) = 4
      /\ \A i \in 1 .. 4 : (p \o q)[i] = IF i <= 1 THEN p[i] ELSE q[i - 1]
  <2>1. p \in Seq(Statement) /\ q \in Seq(Statement)
    BY <1>1
  <2>2. /\ p \o q \in Seq(Statement) /\ Len(p \o q) = Len(p) + Len(q)
        /\ \A i \in 1 .. Len(p) + Len(q) :
              (p \o q)[i] = IF i <= Len(p) THEN p[i] ELSE q[i - Len(p)]
    BY <2>1, ConcatProperties
  <2> QED BY <1>1, <2>2
<1>3. \A i \in 1 .. 4 : (p \o q)[i] = r[i]
  <2>1. (p \o q)[1] = a /\ (p \o q)[2] = b /\ (p \o q)[3] = c /\ (p \o q)[4] = d
    BY <1>1, <1>2
  <2>2. \A i \in 1 .. 4 : i = 1 \/ i = 2 \/ i = 3 \/ i = 4
    OBVIOUS
  <2> QED BY <1>1, <2>1, <2>2
<1>4. p \o q = r
  BY <1>1, <1>2, <1>3, SeqEqual
<1> QED BY <1>4 DEF p, q, r

LEMMA create_site_KeepsPlan ==
    ASSUME MetaInv, PlanInv, NEW s \in SiteId, create_site(s) PROVE PlanInv'
<1> DEFINE left == <<Do("site", s, "none")>> \o StarterRows(s)
<1>1. left = Creation(s)
  <2> DEFINE a == Do("site", s, "none")
             b == Do("starter", s, "traffic_spike")
             c == Do("starter", s, "traffic_drop")
             d == Do("starter", s, "new_referrer")
  <2>1. left = <<a>> \o <<b, c, d>> /\ Creation(s) = <<a, b, c, d>>
    BY DEF StarterRows, Creation
  <2>a. a \in Statement /\ b \in Statement /\ c \in Statement /\ d \in Statement
    BY DoTyped DEF Starter
  <2> HIDE DEF a, b, c, d
  <2>2. <<a>> \o <<b, c, d>> = <<a, b, c, d>>
    BY <2>a, Prefixed
  <2> QED BY <2>1, <2>2
<1>2. job'.op = "create" /\ job'.left = left /\ conn' = "open" /\ ~channel_id'
  BY DEF create_site, Ready, PlanInv, tables
<1>3. Len(Creation(s)) = 4
  BY DEF Creation
<1> HIDE DEF left
<1>4. From(left, Creation(s), 1, 4)
  BY <1>1, <1>3 DEF From
<1>5. Creating(left)'
  BY <1>4 DEF Creating, From, Creation, Do
<1> QED BY <1>2, <1>5 DEF PlanInv

LEMMA delete_site_KeepsPlan ==
    ASSUME MetaInv, PlanInv, NEW s \in SiteId, delete_site(s) PROVE PlanInv'
<1>1. job'.op = "delete" /\ job'.left = Deletion(s) /\ conn' = "open" /\ ~channel_id'
  BY DEF delete_site, Ready, PlanInv, tables, Deletion
<1>2. Len(Deletion(s)) = 7
  BY DEF Deletion
<1> DEFINE left == Deletion(s)
<1>3. From(left, Deletion(s), 1, 7)
  BY <1>2 DEF From
<1>4. Deleting(left)'
  BY <1>3 DEF Deleting, Made, From, Deletion, Do
<1> QED BY <1>1, <1>4 DEF PlanInv

LEMMA PlanNext == ASSUME MetaInv, PlanInv, [MetaNext]_metaVars PROVE PlanInv'
<1>1. CASE RunStatement
  BY <1>1, RunKeepsPlan
<1>2. CASE StatementFails \/ Crash
  <2>1. job' = Idle /\ channel_id' = channel_id /\ (conn' = "open" => conn = "open")
    BY <1>2 DEF StatementFails, Crash, tables
  <2> QED BY <2>1, IdleTyped DEF PlanInv
<1>3. CASE Open
  BY <1>3, OpenKeepsPlan
<1>4. CASE \E s \in SiteId : create_site(s)
  BY <1>4, create_site_KeepsPlan
<1>5. CASE \E s \in SiteId : delete_site(s)
  BY <1>5, delete_site_KeepsPlan
<1>6. CASE Ready /\ UNCHANGED <<job, conn, channel_id>>
  BY <1>6, IdleTyped DEF Ready, PlanInv
<1>7. CASE UNCHANGED metaVars
  <2>1. /\ job' = job /\ conn' = conn /\ channel_id' = channel_id /\ sites' = sites
        /\ alerts' = alerts /\ fires' = fires /\ children' = children
    BY <1>7 DEF metaVars, tables
  <2> DEFINE left == job.left
  <2>2. Creating(left) => Creating(left)'
    BY <2>1 DEF Creating, From, Creation, Do
  <2>3. Deleting(left) => Deleting(left)'
    <3>1. ASSUME NEW s \in SiteId, NEW k \in 1 .. 7, From(left, Deletion(s), k, 7), Made(s, k)
          PROVE  From(left, Deletion(s), k, 7)' /\ Made(s, k)'
      BY <2>1, <3>1 DEF From, Made, AlertsOf, Deletion, Do
    <3> QED BY <3>1 DEF Deleting
  <2>4. Migrating(left) => Migrating(left)'
    BY <2>1 DEF Migrating
  <2> QED BY <2>1, <2>2, <2>3, <2>4 DEF PlanInv
<1>8. CASE \/ \E s \in SiteId : \/ create_analytics_alert(s)
                                \/ \E t \in Table : Insert(s, t) \/ Delete(s, t)
           \/ \E a \in AlertRow : delete_analytics_alert(a) \/ record_analytics_alert_fire(a)
  <2>1. Ready /\ UNCHANGED <<job, conn, channel_id>>
    BY <1>8 DEF create_analytics_alert, Insert, Delete, delete_analytics_alert,
                record_analytics_alert_fire, Edit
  <2> QED BY <1>6, <2>1
<1> QED BY <1>1, <1>2, <1>3, <1>4, <1>5, <1>7, <1>8
    DEF MetaNext, Table, create_funnel, delete_funnel, create_alert_channel, delete_alert_channel,
        upsert_digest_subscription, delete_digest_subscription, create_api_key, delete_api_key

(* meta.rs:562-565, meta.rs:166: whatever rows users have added and        *)
(* wherever crashes have cut earlier operations short, the constraints     *)
(* refuse no statement of an operation of several.                         *)
THEOREM OperationsAreAccepted == MetaSpec => []NoStatementIsRefused
<1>1. MetaInit => MetaInv /\ PlanInv
  BY MetaInitInv, IdleTyped DEF MetaInit, PlanInv
<1>2. MetaInv /\ PlanInv /\ [MetaNext]_metaVars => (MetaInv /\ PlanInv)'
  BY MetaNextInv, PlanNext
<1>3. MetaInv /\ PlanInv => NoStatementIsRefused
  BY PlansAreAccepted
<1> QED BY <1>1, <1>2, <1>3, PTL DEF MetaSpec
-----------------------------------------------------------------------------
(* Every site has its starter alerts.                                      *)

(* The starter alerts that a list of statements will write. *)
Rows(left) == {<<left[i].site, left[i].arg>> : i \in {j \in DOMAIN left : left[j].do = "starter"}}

(* Where a site that is owed its starter alerts stands: they are there, or *)
(* deleted, or about to be written; or the site is being deleted; or the   *)
(* seed is still to come and will find it bare.                            *)
Written(s) == {s} \X Starter \subseteq alerts \cup removed \cup Rows(job.left)
Going(s) == job.op = "delete" /\ \E i \in DOMAIN job.left : job.left[i].site = s
ToBeSeeded(s) ==
    /\ schema_version = 1 /\ AlertsOf(s) = {}
    /\ job.op = "idle" \/ \E i \in DOMAIN job.left : job.left[i].do = "seed"

(* Nothing but the rebuilding of the table comes before the seed. *)
SeedFirst(left) ==
    \A i \in DOMAIN left : left[i].do = "seed" => i = 1 \/ (i = 2 /\ left[1].do = "drop")

SeedInv ==
    /\ \A s \in sites \ exempt : Written(s) \/ Going(s) \/ ToBeSeeded(s)
    /\ SeedFirst(job.left)

LEMMA Pigeons ==
    ASSUME NEW S, NEW T, IsFiniteSet(S), IsFiniteSet(T), Cardinality(T) < Cardinality(S)
    PROVE  \A f \in [S -> T] : \E x, y \in S : x # y /\ f[x] = f[y]
  BY FS_PigeonHole

LEMMA OneMore == \A m, n \in Nat : m = n - 1 /\ m = 0 => n = 1
  OBVIOUS

(* The seed writes all three rows of every site it finds bare.             *)
LEMMA SeedCovers ==
    ASSUME MetaTypeOK, NEW more \in seed_default_alerts_for_empty_sites,
           NEW s \in sites, AlertsOf(s) = {}
    PROVE  \A t \in Starter : \E k \in DOMAIN more :
              more[k].do = "starter" /\ more[k].site = s /\ more[k].arg = t
<1> DEFINE bare == {x \in sites : AlertsOf(x) = {}}
           n == Cardinality(bare)
<1>1. IsFiniteSet(bare) /\ n \in Nat
  <2>1. IsFiniteSet(bare)
    BY MetaBounds, FS_Subset DEF MetaTypeOK
  <2> QED BY <2>1, FS_CardinalityType
<1>2. PICK q \in [1 .. n -> bare] :
        /\ \A i, j \in 1 .. n : q[i] = q[j] => i = j
        /\ more = [k \in 1 .. 3 * n |-> StarterRows(q[(k + 2) \div 3])[((k - 1) % 3) + 1]]
  BY DEF seed_default_alerts_for_empty_sites
<1>3. s \in bare
  OBVIOUS
<1>4. \E j \in 1 .. n : q[j] = s
  <2> SUFFICES ASSUME \A j \in 1 .. n : q[j] # s PROVE FALSE
    OBVIOUS
  <2>1. IsFiniteSet(1 .. n) /\ Cardinality(1 .. n) = n
    BY <1>1, FS_Interval
  <2> HIDE DEF bare
  <2>2. IsFiniteSet(bare \ {s}) /\ Cardinality(bare \ {s}) = n - 1
    BY <1>1, <1>3, FS_RemoveElement DEF n
  <2> HIDE DEF n
  <2>3. q \in [1 .. n -> bare \ {s}]
    BY <1>2
  <2>4. Cardinality(bare \ {s}) < Cardinality(1 .. n)
    BY <1>1, <2>1, <2>2
  <2>5. \E x, y \in 1 .. n : x # y /\ q[x] = q[y]
    <3> DEFINE I == 1 .. n
               rest == bare \ {s}
    <3>1. IsFiniteSet(I) /\ IsFiniteSet(rest) /\ Cardinality(rest) < Cardinality(I) /\ q \in [I -> rest]
      BY <2>1, <2>2, <2>3, <2>4
    <3> HIDE DEF I, rest
    <3>2. \A f \in [I -> rest] : \E x, y \in I : x # y /\ f[x] = f[y]
      BY ONLY <3>1, Pigeons
    <3>3. \E x, y \in I : x # y /\ q[x] = q[y]
      BY <3>1, <3>2
    <3> QED BY <3>3 DEF I
  <2> QED BY <1>2, <2>5
<1>5. PICK j \in 1 .. n : q[j] = s
  BY <1>4
<1> HIDE DEF n, bare
<1>6. ASSUME NEW i \in 1 .. 3
      PROVE  3 * (j - 1) + i \in DOMAIN more /\ more[3 * (j - 1) + i] = StarterRows(s)[i]
  <2> DEFINE k == 3 * (j - 1) + i
  <2>1. k \in 1 .. 3 * n /\ (k + 2) \div 3 = j /\ ((k - 1) % 3) + 1 = i
    BY <1>1
  <2> HIDE DEF k
  <2>2. k \in DOMAIN more /\ more[k] = StarterRows(s)[i]
    BY <1>2, <1>5, <2>1
  <2> QED BY <2>2 DEF k
<1>7. /\ StarterRows(s)[1] = Do("starter", s, "traffic_spike")
      /\ StarterRows(s)[2] = Do("starter", s, "traffic_drop")
      /\ StarterRows(s)[3] = Do("starter", s, "new_referrer")
  BY DEF StarterRows
<1>8. ASSUME NEW t \in Starter PROVE \E i \in 1 .. 3 : StarterRows(s)[i] = Do("starter", s, t)
  BY <1>7 DEF Starter
<1>9. ASSUME NEW t \in Starter
      PROVE  \E k \in DOMAIN more : more[k].do = "starter" /\ more[k].site = s /\ more[k].arg = t
  <2>1. PICK i \in 1 .. 3 : StarterRows(s)[i] = Do("starter", s, t)
    BY <1>8
  <2> DEFINE k == 3 * (j - 1) + i
  <2>2. k \in DOMAIN more /\ more[k] = StarterRows(s)[i]
    BY <1>6
  <2>3. Do("starter", s, t).do = "starter" /\ Do("starter", s, t).site = s /\ Do("starter", s, t).arg = t
    BY DEF Do
  <2> HIDE DEF k
  <2> QED BY <2>1, <2>2, <2>3
<1> QED BY <1>9

(* What a site has is there still when the operation in hand breaks off.   *)
LEMMA BrokenOff ==
    ASSUME MetaInv, SeedInv, job' = Idle, exempt' = exempt \cup CutShort,
           UNCHANGED <<sites, alerts, removed, schema_version>>
    PROVE  SeedInv'
<1>1. ASSUME NEW i \in DOMAIN job.left, job.left[i].site \in SiteId
      PROVE  job.left[i].site \in CutShort
  <2>1. job.op # "idle"
    BY DEF MetaInv, MetaTypeOK
  <2> QED BY <1>1, <2>1, MetaBounds DEF CutShort
<1>2. job'.op = "idle" /\ job'.left = <<>> /\ DOMAIN job'.left = {}
  BY IdleTyped
<1>3. ASSUME NEW s \in sites, s \notin exempt' PROVE Written(s)' \/ ToBeSeeded(s)'
  <2>1. s \notin CutShort /\ s \notin exempt /\ s \in SiteId
    BY <1>3 DEF MetaInv, MetaTypeOK
  <2>2. \A i \in DOMAIN job.left : job.left[i].site # s
    BY <1>1, <2>1
  <2>3. ~Going(s)
    BY <2>2 DEF Going
  <2>4. CASE Written(s)
    <3>1. \A t \in Starter : <<s, t>> \notin Rows(job.left)
      BY <2>2 DEF Rows
    <3>2. {s} \X Starter \subseteq alerts \cup removed
      BY <2>4, <3>1 DEF Written
    <3> QED BY <3>2 DEF Written
  <2>5. CASE ToBeSeeded(s)
    BY <1>2, <2>5 DEF ToBeSeeded, AlertsOf
  <2> QED BY <1>3, <2>1, <2>3, <2>4, <2>5 DEF SeedInv
<1>4. SeedFirst(job.left)'
  BY <1>2 DEF SeedFirst
<1> QED BY <1>3, <1>4 DEF SeedInv

(* The lists of the rows still to be written. *)
LEMMA RowsOfTheRest ==
    ASSUME NEW left \in Seq(Statement), left # <<>>, NEW r \in Rows(left),
           r # <<Head(left).site, Head(left).arg>>
    PROVE  r \in Rows(Tail(left))
<1>1. PICK i \in DOMAIN left : left[i].do = "starter" /\ r = <<left[i].site, left[i].arg>>
  BY DEF Rows
<1>2. /\ Head(left) = left[1] /\ DOMAIN left = 1 .. Len(left) /\ Len(left) \in Nat
      /\ Tail(left) \in Seq(Statement) /\ Len(Tail(left)) = Len(left) - 1
      /\ \A k \in 1 .. Len(left) - 1 : Tail(left)[k] = left[k + 1]
  BY HeadTailProperties, LenProperties
<1>3. i - 1 \in 1 .. Len(left) - 1 /\ (i - 1) + 1 = i
  BY <1>1, <1>2
<1>4. Tail(left)[i - 1] = left[i] /\ i - 1 \in DOMAIN Tail(left)
  BY <1>2, <1>3, LenProperties
<1> QED BY <1>1, <1>4 DEF Rows

LEMMA RowsJoin ==
    ASSUME NEW p \in Seq(Statement), NEW q \in Seq(Statement)
    PROVE  Rows(p) \cup Rows(q) \subseteq Rows(p \o q)
<1> DEFINE pq == p \o q
<1>1. /\ pq \in Seq(Statement) /\ Len(pq) = Len(p) + Len(q) /\ Len(p) \in Nat /\ Len(q) \in Nat
      /\ \A i \in 1 .. Len(p) + Len(q) : pq[i] = IF i <= Len(p) THEN p[i] ELSE q[i - Len(p)]
      /\ DOMAIN p = 1 .. Len(p) /\ DOMAIN q = 1 .. Len(q)
  BY ConcatProperties, LenProperties
<1>2. DOMAIN pq = 1 .. Len(p) + Len(q)
  BY <1>1, LenProperties
<1> HIDE DEF pq
<1>3. ASSUME NEW i \in DOMAIN p PROVE i \in DOMAIN pq /\ pq[i] = p[i]
  BY <1>1, <1>2
<1>4. ASSUME NEW i \in DOMAIN q PROVE \E k \in DOMAIN pq : pq[k] = q[i]
  <2>1. Len(p) + i \in 1 .. Len(p) + Len(q) /\ ~(Len(p) + i <= Len(p)) /\ (Len(p) + i) - Len(p) = i
    BY <1>1
  <2>2. pq[Len(p) + i] = q[i]
    BY <1>1, <2>1
  <2> QED BY <1>2, <2>1, <2>2
<1>5. Rows(p) \cup Rows(q) \subseteq Rows(pq)
  <2>1. ASSUME NEW r \in Rows(p) PROVE r \in Rows(pq)
    BY <1>3 DEF Rows
  <2>2. ASSUME NEW r \in Rows(q) PROVE r \in Rows(pq)
    <3>1. PICK i \in DOMAIN q : q[i].do = "starter" /\ r = <<q[i].site, q[i].arg>>
      BY DEF Rows
    <3>2. PICK k \in DOMAIN pq : pq[k] = q[i]
      BY <1>4
    <3> QED BY <3>1, <3>2 DEF Rows
  <2> QED BY <2>1, <2>2
<1> QED BY <1>5 DEF pq

LEMMA Within7 ==
    ASSUME NEW k \in 1 .. 7, NEW n \in Nat, n = 7 - k + 1
    PROVE  \A i \in 1 .. n : k + i - 1 \in 1 .. 7
  OBVIOUS

LEMMA Seventh == \A k \in 1 .. 7 : \A n \in Nat : n = 1 /\ n = 7 - k + 1 => k + 1 - 1 = 7
  OBVIOUS

(* A deletion is of one site, and its last statement takes the site away.  *)
LEMMA DeletionOfOne ==
    ASSUME MetaInv, PlanInv, job.op = "delete"
    PROVE  \E s \in SiteId : /\ \A i \in DOMAIN job.left : job.left[i].site = s
                             /\ Tail(job.left) = <<>> => Head(job.left).do = "row"
<1> DEFINE left == job.left
<1>1. /\ MetaTypeOK /\ left \in Seq(Statement) /\ left # <<>> /\ DOMAIN left = 1 .. Len(left)
      /\ Len(left) \in Nat \ {0} /\ Head(left) = left[1] /\ Len(Tail(left)) = Len(left) - 1
  BY HeadOfJob DEF MetaInv
<1>2. PICK s \in SiteId, k \in 1 .. 7 : From(left, Deletion(s), k, 7)
  BY DEF PlanInv, Deleting
<1> HIDE DEF left
<1>3. /\ Len(left) = 7 - k + 1
      /\ \A i \in 1 .. Len(left) : left[i] = Deletion(s)[k + i - 1]
  BY <1>2 DEF From
<1>4. ASSUME NEW i \in 1 .. Len(left) PROVE left[i].site = s
  <2>1. k + i - 1 \in 1 .. 7
    BY <1>1, <1>3, Within7
  <2>2. Deletion(s)[k + i - 1].site = s
    BY <2>1, DeletionTyped
  <2>3. left[i] = Deletion(s)[k + i - 1]
    BY <1>3
  <2> QED BY <2>2, <2>3
<1>5. ASSUME Tail(left) = <<>> PROVE Head(left).do = "row"
  <2>1. Len(left) = 1
    <3> DEFINE rest == Tail(left)
    <3>1. rest = <<>>
      BY <1>5
    <3>2. Len(rest) = Len(left) - 1
      BY <1>1
    <3> HIDE DEF rest
    <3>3. Len(rest) = 0
      BY <3>1
    <3>4. Len(rest) \in Nat /\ Len(left) \in Nat
      BY <1>1, <3>3
    <3> QED BY <3>2, <3>3, <3>4, OneMore
  <2>2. 1 \in 1 .. Len(left) /\ k + 1 - 1 = 7
    <3>1. Len(left) \in Nat /\ Len(left) = 7 - k + 1
      BY <1>1, <1>3
    <3>2. k + 1 - 1 = 7
      BY <2>1, <3>1, Seventh
    <3> QED BY <2>1, <3>2
  <2>3. left[1] = Deletion(s)[7]
    BY <1>3, <2>2
  <2> QED BY <1>1, <2>3, DeletionTyped
<1> QED BY <1>1, <1>4, <1>5 DEF left

(* A creation that is about to store its site has the three rows after it. *)
LEMMA CreationOfOne ==
    ASSUME MetaInv, PlanInv, job.op = "create", Head(job.left).do = "site"
    PROVE  {Head(job.left).site} \X Starter \subseteq Rows(Tail(job.left))
<1> DEFINE left == job.left
           tail == Tail(left)
<1>1. /\ MetaTypeOK /\ left \in Seq(Statement) /\ Len(left) \in Nat \ {0} /\ Head(left) = left[1]
      /\ tail \in Seq(Statement) /\ Len(tail) = Len(left) - 1
      /\ \A i \in 1 .. Len(left) - 1 : tail[i] = left[i + 1]
  BY HeadOfJob DEF MetaInv
<1>2. PICK s \in SiteId, k \in 1 .. 4 : From(left, Creation(s), k, 4)
  BY DEF PlanInv, Creating
<1>a. Head(left).do = "site"
  OBVIOUS
<1> HIDE DEF left, tail
<1>3. /\ Len(left) = 4 - k + 1
      /\ \A i \in 1 .. Len(left) : left[i] = Creation(s)[k + i - 1]
  BY <1>2 DEF From
<1>4. left[1] = Creation(s)[k]
  <2>1. 1 \in 1 .. Len(left) /\ k + 1 - 1 = k
    BY <1>1
  <2> QED BY <1>3, <2>1
<1>5. k = 1 /\ Head(left).site = s
  BY <1>1, <1>4, <1>a, CreationTyped
<1>6. Len(left) = 4 /\ \A i \in 1 .. 4 : left[i] = Creation(s)[i]
  <2>1. Len(left) = 4 /\ \A i \in 1 .. 4 : 1 + i - 1 = i
    BY <1>3, <1>5
  <2> QED BY <1>3, <1>5, <2>1
<1>7. DOMAIN tail = 1 .. 3 /\ tail[1] = Creation(s)[2] /\ tail[2] = Creation(s)[3] /\ tail[3] = Creation(s)[4]
  BY <1>1, <1>6, LenProperties
<1>8. /\ tail[1] = Do("starter", s, "traffic_spike") /\ tail[2] = Do("starter", s, "traffic_drop")
      /\ tail[3] = Do("starter", s, "new_referrer")
  BY <1>7 DEF Creation
<1>9. ASSUME NEW t \in Starter PROVE <<s, t>> \in Rows(tail)
  <2>1. PICK i \in 1 .. 3 : tail[i] = Do("starter", s, t)
    BY <1>8 DEF Starter
  <2> QED BY <1>7, <2>1 DEF Rows, Do
<1> QED BY <1>5, <1>9 DEF left, tail

LEMMA Two ==
    \A n, m \in Nat : n # 0 /\ n = m - 1 => 1 \in 1 .. m - 1 /\ 1 + 1 \in 1 .. m /\ 1 \in 1 .. n
  OBVIOUS

LEMMA RunSeeds == ASSUME MetaInv, PlanInv, SeedInv, RunStatement PROVE SeedInv'
<1> DEFINE head == Head(job.left)
           tail == Tail(job.left)
<1>1. PICK more \in Unfolded :
        LET left == more \o Tail(job.left)
        IN  /\ job' = IF left = <<>> THEN Idle ELSE [job EXCEPT !.left = left]
            /\ conn' = IF left = <<>> THEN "open" ELSE conn
  BY DEF RunStatement
<1>a. PICK left : left = more \o Tail(job.left)
  OBVIOUS
<1>2. /\ job.op \in {"create", "delete", "migrate"} /\ job \in Job /\ MetaTypeOK
      /\ Execute(head) /\ head = job.left[1] /\ 1 \in DOMAIN job.left /\ DOMAIN job.left = 1 .. Len(job.left)
      /\ job.left \in Seq(Statement) /\ job.left # <<>> /\ tail \in Seq(Statement) /\ Len(job.left) \in Nat \ {0}
      /\ Len(tail) = Len(job.left) - 1 /\ \A i \in 1 .. Len(job.left) - 1 : tail[i] = job.left[i + 1]
      /\ removed' = removed /\ exempt' = exempt
  BY HeadOfJob DEF RunStatement, MetaInv, MetaTypeOK, Job, past
<1>3. RestOfTheJob(left)
  BY <1>1, <1>a, RestOfJob DEF RunStatement
<1>4. head.do # "seed" => left = tail
  <2>1. head.do # "seed" => more = <<>>
    BY <1>1 DEF Unfolded
  <2> QED BY <1>2, <1>a, <2>1, ConcatEmptySeq
<1>5. /\ job'.left = left
      /\ left # <<>> => job'.op = job.op
      /\ left = <<>> => job'.op = "idle"
  BY <1>1, <1>2, <1>a, IdleTyped DEF Job
<1>6. more \in Seq(Statement)
  <2>1. CASE head.do = "seed"
    BY <1>1, <1>2, <2>1, SeedTyped DEF Unfolded, MetaInv
  <2>2. CASE head.do # "seed"
    <3>1. more = <<>>
      BY <1>1, <2>2 DEF Unfolded
    <3> QED BY <3>1
  <2> QED BY <2>1, <2>2
<1>7. Rows(more) \cup Rows(tail) \subseteq Rows(left)
  BY <1>2, <1>6, <1>a, RowsJoin
<1> HIDE DEF head, tail
<1>8. SeedFirst(left)
  <2> SUFFICES ASSUME NEW i \in DOMAIN left, left[i].do = "seed" PROVE i = 1
    BY DEF SeedFirst
  <2>1. CASE head.do # "seed"
    <3>1. i \in 1 .. Len(job.left) - 1 /\ left[i] = job.left[i + 1] /\ i + 1 \in DOMAIN job.left /\ i + 1 # 1
      <4>1. DOMAIN tail = 1 .. Len(job.left) - 1
        BY <1>2, LenProperties
      <4> QED BY <1>2, <1>4, <2>1, <4>1
    <3>2. i + 1 = 2
      BY <3>1 DEF SeedInv, SeedFirst
    <3> QED BY <3>1, <3>2
  <2>2. CASE head.do = "seed"
    <3>1. PICK j \in DOMAIN job.left : j > 1 /\ left[i] = job.left[j]
      BY <1>3 DEF RestOfTheJob
    <3>2. job.left[1].do = "drop"
      BY <1>2, <3>1 DEF SeedInv, SeedFirst
    <3> QED BY <1>2, <2>2, <3>2
  <2> QED BY <2>1, <2>2
<1>9. ASSUME NEW s \in sites', s \notin sites PROVE Written(s)'
  <2>1. head.do = "site" /\ s = head.site
    BY <1>2, <1>9 DEF Execute
  <2>2. job.op = "create"
    BY <1>2, <2>1 DEF MetaInv, Deletes, Migrates
  <2>3. {s} \X Starter \subseteq Rows(tail)
    BY <2>1, <2>2, CreationOfOne DEF head, tail
  <2> QED BY <1>5, <1>7, <2>3 DEF Written
<1>10. ASSUME NEW s \in sites', s \in sites, Written(s) PROVE Written(s)' \/ Going(s)'
  <2>1. \A t \in Starter : <<s, t>> \in Rows(job.left) =>
           <<s, t>> \in Rows(left) \/ (head.do = "starter" /\ head.site = s /\ head.arg = t)
    <3> SUFFICES ASSUME NEW t \in Starter, <<s, t>> \in Rows(job.left), <<s, t>> \notin Rows(tail)
                 PROVE  head.do = "starter" /\ head.site = s /\ head.arg = t
      BY <1>7
    <3>1. PICK i \in DOMAIN job.left : job.left[i].do = "starter" /\ job.left[i].site = s /\ job.left[i].arg = t
      BY DEF Rows
    <3>2. i = 1
      <4> SUFFICES ASSUME i # 1 PROVE FALSE
        OBVIOUS
      <4>1. i - 1 \in 1 .. Len(job.left) - 1 /\ (i - 1) + 1 = i
        BY <1>2
      <4>2. tail[i - 1] = job.left[i] /\ i - 1 \in DOMAIN tail
        BY <1>2, <4>1, LenProperties
      <4> QED BY <3>1, <4>2 DEF Rows
    <3> QED BY <1>2, <3>1, <3>2
  <2>2. CASE head.do # "alerts"
    <3>1. alerts \subseteq alerts' /\ (head.do = "starter" => <<head.site, head.arg>> \in alerts')
      BY <1>2, <2>2 DEF Execute
    <3>2. \A t \in Starter : <<s, t>> \in alerts' \cup removed \cup Rows(left)
      BY <1>10, <2>1, <3>1 DEF Written
    <3> QED BY <1>2, <1>5, <3>2 DEF Written
  <2>3. CASE head.do = "alerts" /\ head.site # s
    <3>1. alerts' = alerts \ AlertsOf(head.site)
      BY <1>2, <2>3 DEF Execute
    <3>2. \A t \in Starter : <<s, t>> \in alerts => <<s, t>> \in alerts'
      BY <2>3, <3>1 DEF AlertsOf
    <3>3. \A t \in Starter : <<s, t>> \in alerts' \cup removed \cup Rows(left)
      BY <1>10, <2>1, <2>3, <3>2 DEF Written
    <3> QED BY <1>2, <1>5, <3>3 DEF Written
  <2>4. CASE head.do = "alerts" /\ head.site = s
    <3>1. job.op = "delete"
      BY <1>2, <2>4 DEF MetaInv, Creates, Migrates
    <3>2. PICK d \in SiteId : /\ \A i \in DOMAIN job.left : job.left[i].site = d
                              /\ tail = <<>> => head.do = "row"
      BY <3>1, DeletionOfOne DEF head, tail
    <3>3. left = tail /\ left # <<>> /\ d = s
      BY <1>2, <1>4, <2>4, <3>2
    <3>4. 1 \in DOMAIN left /\ left[1].site = s
      <4>1. Len(tail) # 0 /\ DOMAIN tail = 1 .. Len(tail) /\ Len(tail) \in Nat
        BY <1>2, <3>3, EmptySeq, LenProperties
      <4>2. 1 \in 1 .. Len(job.left) - 1 /\ 1 + 1 \in DOMAIN job.left /\ 1 \in DOMAIN tail
        BY <1>2, <4>1, Two
      <4>3. tail[1] = job.left[1 + 1]
        BY <1>2, <4>2
      <4> QED BY <3>2, <3>3, <4>2, <4>3
    <3> QED BY <1>5, <3>1, <3>3, <3>4 DEF Going
  <2> QED BY <2>2, <2>3, <2>4
<1>11. ASSUME NEW s \in sites', s \in sites, Going(s) PROVE Going(s)'
  <2>1. PICK d \in SiteId : /\ \A i \in DOMAIN job.left : job.left[i].site = d
                            /\ tail = <<>> => head.do = "row"
    BY <1>11, DeletionOfOne DEF Going, head, tail
  <2>2. d = s /\ head.site = s
    BY <1>2, <1>11, <2>1 DEF Going
  <2>3. head.do # "row"
    BY <1>2, <1>11, <2>2 DEF Execute
  <2>4. head.do # "seed"
    BY <1>2, <1>11 DEF Going, MetaInv, Deletes
  <2>5. left = tail /\ left # <<>>
    BY <1>4, <2>1, <2>3, <2>4
  <2>6. 1 \in DOMAIN left /\ left[1].site = s
    <3>1. Len(tail) # 0 /\ DOMAIN tail = 1 .. Len(tail) /\ Len(tail) \in Nat
      BY <1>2, <2>5, EmptySeq, LenProperties
    <3>2. 1 \in 1 .. Len(job.left) - 1 /\ 1 + 1 \in DOMAIN job.left /\ 1 \in DOMAIN tail
      BY <1>2, <3>1, Two
    <3>3. tail[1] = job.left[1 + 1]
      BY <1>2, <3>2
    <3> QED BY <2>1, <2>2, <2>5, <3>2, <3>3
  <2> QED BY <1>5, <1>11, <2>5, <2>6 DEF Going
<1>12. ASSUME NEW s \in sites', s \in sites, ToBeSeeded(s) PROVE Written(s)' \/ ToBeSeeded(s)'
  <2>1. PICK i \in DOMAIN job.left : job.left[i].do = "seed"
    BY <1>2, <1>12 DEF ToBeSeeded
  <2>2. CASE i = 1
    <3>1. more \in seed_default_alerts_for_empty_sites
      BY <1>1, <1>2, <2>1, <2>2 DEF Unfolded
    <3>2. \A t \in Starter : <<s, t>> \in Rows(more)
      BY <1>2, <1>12, <3>1, SeedCovers DEF ToBeSeeded, Rows
    <3> QED BY <1>5, <1>7, <3>2 DEF Written
  <2>3. CASE i # 1
    <3>1. i = 2 /\ head.do = "drop"
      BY <1>2, <2>1, <2>3 DEF SeedInv, SeedFirst
    <3>2. alerts' = alerts /\ schema_version' = schema_version /\ left = tail
      BY <1>2, <1>4, <3>1 DEF Execute
    <3>3. 1 \in DOMAIN left /\ left[1].do = "seed"
      <4>1. 1 \in 1 .. Len(job.left) - 1 /\ 1 + 1 = i
        BY <1>2, <3>1
      <4>2. tail[1] = job.left[i] /\ 1 \in DOMAIN tail
        BY <1>2, <4>1, LenProperties
      <4> QED BY <2>1, <3>2, <4>2
    <3>4. AlertsOf(s)' = AlertsOf(s)
      BY <3>2 DEF AlertsOf
    <3> QED BY <1>5, <1>12, <3>2, <3>3, <3>4 DEF ToBeSeeded
  <2> QED BY <2>2, <2>3
<1>13. SeedFirst(job.left)'
  BY <1>5, <1>8 DEF SeedFirst
<1> QED BY <1>2, <1>9, <1>10, <1>11, <1>12, <1>13 DEF SeedInv

(* While the store is ready, every site that is owed them has the starters *)
(* or had them.                                                            *)
LEMMA ReadySites ==
    ASSUME MetaInv, SeedInv, Ready
    PROVE  \A s \in sites \ exempt : {s} \X Starter \subseteq alerts \cup removed
<1>1. schema_version = 3 /\ job.op = "idle" /\ DOMAIN job.left = {}
  BY IdleTyped DEF Ready, MetaInv
<1>2. Rows(job.left) = {}
  BY <1>1 DEF Rows
<1> QED BY <1>1, <1>2 DEF SeedInv, Written, Going, ToBeSeeded

(* A step that begins at a ready store and takes no alert away.            *)
LEMMA StillWritten ==
    ASSUME MetaInv, SeedInv, Ready, sites' \subseteq sites, exempt' = exempt,
           \A s \in SiteId, t \in Starter : <<s, t>> \in alerts \cup removed => <<s, t>> \in alerts' \cup removed',
           SeedFirst(job.left)'
    PROVE  SeedInv'
<1>1. \A s \in sites' \ exempt' : \A t \in Starter : <<s, t>> \in alerts' \cup removed'
  BY ReadySites DEF MetaInv, MetaTypeOK
<1> QED BY <1>1 DEF SeedInv, Written

(* The seed comes first, or right after the rebuilding of the table.       *)
LEMMA MigrationsSeed ==
    ASSUME MetaTypeOK
    PROVE  /\ SeedFirst(Migrations)
           /\ schema_version = 1 => \E i \in DOMAIN Migrations : Migrations[i].do = "seed"
<1> DEFINE drop == Do("drop", "none", "none")
           seed == Do("seed", "none", "none")
           two == Do("version2", "none", "none")
           three == Do("version3", "none", "none")
           p == IF channel_id THEN <<drop>> ELSE <<>>
           q == IF schema_version < 2 THEN <<seed, two>> ELSE <<>>
           r == IF schema_version < 3 THEN <<three>> ELSE <<>>
           m == Migrations
<1>1. /\ drop \in Statement /\ seed \in Statement /\ two \in Statement /\ three \in Statement
      /\ drop.do = "drop" /\ seed.do = "seed" /\ two.do = "version2" /\ three.do = "version3"
  BY DoTyped
<1>2. schema_version \in 1 .. 3 /\ channel_id \in BOOLEAN
  BY DEF MetaTypeOK
<1>3. m = (p \o q) \o r
  BY DEF Migrations
<1> HIDE DEF drop, seed, two, three, m
<1>4. p \in Seq(Statement) /\ Len(p) \in {0, 1} /\ \A i \in 1 .. Len(p) : p[i] = drop
  BY <1>1
<1>5. /\ q \in Seq(Statement) /\ Len(q) \in {0, 2} /\ (Len(q) = 2 => q[1] = seed /\ q[2] = two)
      /\ schema_version = 1 => Len(q) = 2
  BY <1>1, <1>2
<1>6. r \in Seq(Statement) /\ Len(r) \in {0, 1} /\ \A i \in 1 .. Len(r) : r[i] = three
  BY <1>1, <1>2
<1> HIDE DEF p, q, r
<1>7. /\ Len(m) = Len(p) + Len(q) + Len(r) /\ DOMAIN m = 1 .. Len(m)
      /\ \A i \in 1 .. Len(m) :
            \/ i \in 1 .. Len(p) /\ m[i] = p[i]
            \/ /\ i > Len(p) /\ i <= Len(p) + Len(q) /\ i - Len(p) \in 1 .. Len(q)
               /\ m[i] = q[i - Len(p)]
            \/ /\ i > Len(p) + Len(q) /\ i - (Len(p) + Len(q)) \in 1 .. Len(r)
               /\ m[i] = r[i - (Len(p) + Len(q))]
  BY <1>3, <1>4, <1>5, <1>6, Joined
<1>8. Len(p) = 1 => m[1] = drop /\ 1 \in DOMAIN m
  <2> SUFFICES ASSUME Len(p) = 1 PROVE m[1] = drop /\ 1 \in DOMAIN m
    OBVIOUS
  <2>1. 1 \in 1 .. Len(m) /\ ~(1 > Len(p)) /\ ~(1 > Len(p) + Len(q))
    BY <1>5, <1>6, <1>7
  <2> QED BY <1>4, <1>7, <2>1
<1>9. SeedFirst(m)
  <2> SUFFICES ASSUME NEW i \in DOMAIN m, m[i].do = "seed" PROVE i = 1 \/ (i = 2 /\ m[1].do = "drop")
    BY DEF SeedFirst
  <2>1. m[i] # drop /\ m[i] # two /\ m[i] # three
    BY <1>1
  <2>2. /\ i > Len(p) /\ i <= Len(p) + Len(q) /\ i - Len(p) \in 1 .. Len(q)
        /\ m[i] = q[i - Len(p)]
    BY <1>4, <1>6, <1>7, <2>1
  <2>3. i - Len(p) = 1
    <3>1. Len(q) = 2 /\ i - Len(p) \in 1 .. 2
      BY <1>5, <2>2
    <3>2. i - Len(p) # 2
      BY <1>5, <2>1, <2>2, <3>1
    <3> QED BY <3>1, <3>2
  <2>4. i \in Nat /\ Len(p) \in {0, 1}
    BY <1>4, <1>7
  <2>5. i = 1 \/ (i = 2 /\ Len(p) = 1)
    BY <2>3, <2>4
  <2> QED BY <1>1, <1>8, <2>5
<1>10. ASSUME schema_version = 1 PROVE \E i \in DOMAIN m : m[i].do = "seed"
  <2> DEFINE i == Len(p) + 1
  <2>1. /\ i \in 1 .. Len(m) /\ ~(i \in 1 .. Len(p)) /\ ~(i > Len(p) + Len(q)) /\ i - Len(p) = 1
        /\ Len(q) = 2
    <3>1. Len(p) \in {0, 1} /\ Len(q) = 2 /\ Len(r) \in {0, 1} /\ Len(m) = Len(p) + Len(q) + Len(r)
      BY <1>4, <1>5, <1>6, <1>7, <1>10
    <3> QED BY ONLY <3>1
  <2> HIDE DEF i
  <2>2. m[i] = q[i - Len(p)]
    BY <1>7, <2>1
  <2> QED BY <1>1, <1>5, <1>7, <2>1, <2>2
<1> QED BY <1>9, <1>10 DEF m

LEMMA OpenSeeds == ASSUME MetaInv, SeedInv, Open PROVE SeedInv'
<1>1. MetaTypeOK /\ job.op = "idle" /\ DOMAIN job.left = {} /\ UNCHANGED <<tables, past>>
  BY IdleTyped DEF MetaInv, Open
<1>2. Rows(job.left) = {}
  BY <1>1 DEF Rows
<1>3. SeedFirst(Migrations) /\ (schema_version = 1 => \E i \in DOMAIN Migrations : Migrations[i].do = "seed")
  BY <1>1, MigrationsSeed
<1>4. job' = job \/ (job'.op = "migrate" /\ job'.left = Migrations)
  BY DEF Open
<1>5. SeedFirst(job.left)'
  BY <1>1, <1>3, <1>4 DEF SeedFirst
<1>6. ASSUME NEW s \in sites', s \notin exempt' PROVE Written(s)' \/ ToBeSeeded(s)'
  <2>1. s \in sites \ exempt /\ alerts' = alerts /\ removed' = removed /\ schema_version' = schema_version
    BY <1>1, <1>6 DEF tables, past
  <2>2. CASE Written(s)
    BY <1>2, <2>1, <2>2 DEF Written
  <2>3. CASE ToBeSeeded(s)
    <3>1. AlertsOf(s)' = {} /\ schema_version = 1
      BY <2>1, <2>3 DEF ToBeSeeded, AlertsOf
    <3>2. job'.op = "idle" \/ \E i \in DOMAIN job'.left : job'.left[i].do = "seed"
      BY <1>1, <1>3, <1>4, <3>1
    <3> QED BY <2>1, <3>1, <3>2 DEF ToBeSeeded
  <2> QED BY <1>1, <2>1, <2>2, <2>3 DEF SeedInv, Going
<1> QED BY <1>5, <1>6 DEF SeedInv

LEMMA SeedNext == ASSUME MetaInv, PlanInv, SeedInv, [MetaNext]_metaVars PROVE SeedInv'
<1>1. CASE RunStatement
  BY <1>1, RunSeeds
<1>2. CASE StatementFails \/ Crash
  BY <1>2, BrokenOff DEF StatementFails, Crash, tables
<1>3. CASE Open
  BY <1>3, OpenSeeds
<1>4. ASSUME NEW s \in SiteId, create_site(s) \/ delete_site(s) PROVE SeedInv'
  <2>1. Ready /\ UNCHANGED <<tables, removed, exempt>>
    BY <1>4 DEF create_site, delete_site, past
  <2>2. \A i \in DOMAIN job'.left : job'.left[i].do # "seed"
    <3>1. MetaInv' /\ (job'.op = "create" \/ job'.op = "delete")
      BY <1>4, create_site_Keeps, delete_site_Keeps DEF create_site, delete_site
    <3> QED BY <3>1 DEF MetaInv, Creates, Deletes
  <2> QED BY <2>1, <2>2, StillWritten DEF tables, SeedFirst
<1>5. CASE \/ \E s \in SiteId : \/ create_analytics_alert(s)
                                \/ \E t \in Table : Insert(s, t) \/ Delete(s, t)
           \/ \E a \in AlertRow : delete_analytics_alert(a) \/ record_analytics_alert_fire(a)
  <2>1. Ready /\ UNCHANGED <<job, sites, exempt>>
    BY <1>5 DEF create_analytics_alert, Insert, Delete, delete_analytics_alert,
                record_analytics_alert_fire, Edit
  <2>2. \A s \in SiteId, t \in Starter : <<s, t>> \in alerts \cup removed => <<s, t>> \in alerts' \cup removed'
    <3>1. CASE \E s \in SiteId, t \in Table : Insert(s, t) \/ Delete(s, t)
      BY <3>1 DEF Insert, Delete
    <3>2. CASE \E s \in SiteId : create_analytics_alert(s)
      BY <3>2 DEF create_analytics_alert
    <3>3. CASE \E a \in AlertRow : delete_analytics_alert(a)
      BY <3>3 DEF delete_analytics_alert
    <3>4. CASE \E a \in AlertRow : record_analytics_alert_fire(a)
      BY <3>4 DEF record_analytics_alert_fire
    <3> QED BY <1>5, <3>1, <3>2, <3>3, <3>4
  <2> QED BY <2>1, <2>2, StillWritten DEF SeedInv, SeedFirst
<1>6. CASE UNCHANGED metaVars
  BY <1>6 DEF metaVars, tables, past, SeedInv, SeedFirst, Written, Going, ToBeSeeded, Rows, AlertsOf
<1> QED BY <1>1, <1>2, <1>3, <1>4, <1>5, <1>6
    DEF MetaNext, Table, create_funnel, delete_funnel, create_alert_channel, delete_alert_channel,
        upsert_digest_subscription, delete_digest_subscription, create_api_key, delete_api_key

(* meta.rs:474, meta.rs:169: however a site came to be - created, or       *)
(* upgraded with its database - it has the starter alerts its user has not *)
(* deleted, unless the operation that writes them was cut short.           *)
THEOREM EverySiteIsSeeded == MetaSpec => []StartersAreThere
<1>1. MetaInit => MetaInv /\ PlanInv /\ SeedInv
  <2> SUFFICES ASSUME MetaInit PROVE MetaInv /\ PlanInv /\ SeedInv
    OBVIOUS
  <2>1. MetaInv /\ PlanInv
    BY MetaInitInv, IdleTyped DEF MetaInit, PlanInv
  <2>2. PICK S \in SUBSET sites :
          /\ alerts = S \X {Own} /\ schema_version \in 1 .. 2
          /\ exempt = IF schema_version = 1 THEN S ELSE sites
    BY DEF MetaInit
  <2>3. \A s \in sites \ exempt : ToBeSeeded(s)
    BY <2>2, IdleTyped DEF MetaInit, ToBeSeeded, AlertsOf
  <2>4. SeedFirst(job.left)
    BY IdleTyped DEF MetaInit, SeedFirst
  <2> QED BY <2>1, <2>3, <2>4 DEF SeedInv
<1>2. MetaInv /\ PlanInv /\ SeedInv /\ [MetaNext]_metaVars => (MetaInv /\ PlanInv /\ SeedInv)'
  BY MetaNextInv, PlanNext, SeedNext
<1>3. MetaInv /\ SeedInv => StartersAreThere
  BY ReadySites DEF StartersAreThere
<1> QED BY <1>1, <1>2, <1>3, PTL DEF MetaSpec
=============================================================================

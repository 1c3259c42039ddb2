------------------------------ MODULE EntityNames ------------------------------
(***************************************************************************)
(* The names of one workspace's entities: the rows that the side-effects   *)
(* worker makes for the [[names]] of messages (backend/src/services/       *)
(* entityService.js) and the aliases that members edit                     *)
(* (backend/src/routes/entities.js).  Names are normalized; a unique index *)
(* on (workspace_id, normalized_name) guards canonical names, nothing      *)
(* guards aliases.                                                         *)
(***************************************************************************)
EXTENDS Naturals, FiniteSets

CONSTANTS
    Entities,       \* ids of rows, those to come included
    Names,          \* normalized names
    NoName,         \* the row does not exist yet
    Members,        \* requests of members that edit metadata
    MAX_ALIASES     \* of one row

ASSUME EntityNamesAssumption == NoName \notin Names \cup Entities /\ MAX_ALIASES \in Nat

VARIABLES
    canonical,      \* normalized_name of each row
    aliases,        \* aliases of each row
    edit,           \* what each member's request is about to write
    linking,        \* the name the worker looks up, and how far it is
    raced           \* history: names written after another write had made the look stale

nameVars == <<canonical, aliases, edit, linking, raced>>

Exists(e) == canonical[e] # NoName

\* findEntityByName: the rows a name resolves to, of which `first` takes any.
Named(name) == {e \in Entities : Exists(e) /\ (canonical[e] = name \/ name \in aliases[e])}

NoEdit == [entity |-> NoName, aliases |-> {}, stale |-> FALSE]
NoLink == [name |-> NoName, step |-> "none", stale |-> FALSE]

NamesInit ==
    /\ canonical = [e \in Entities |-> NoName]
    /\ aliases = [e \in Entities |-> {}]
    /\ edit = [m \in Members |-> NoEdit]
    /\ linking = NoLink /\ raced = {}

\* What is about to be written was looked up before these names were.
Edits(names) == [m \in Members |-> [edit[m] EXCEPT !.stale = @ \/ edit[m].aliases \cap names # {}]]
Link(names) == [linking EXCEPT !.stale = @ \/ linking.name \in names]

------------------------------------------------------------------------------
(* findOrCreateEntity, one name at a time: find, insert, find again.          *)

\* A message names the entity.  Nothing more is done where one is found.
FindEntity(name) ==
    /\ linking = NoLink
    /\ linking' = IF Named(name) # {} THEN NoLink
                  ELSE [name |-> name, step |-> "insert", stale |-> FALSE]
    /\ UNCHANGED <<canonical, aliases, edit, raced>>

\* The insert, ignored where the canonical name is taken; `rows` holds one unused id.
CreateEntity(e) ==
    /\ linking.step = "insert" /\ linking' = NoLink /\ ~Exists(e)
    /\ canonical' = IF \E d \in Entities : canonical[d] = linking.name THEN canonical
                    ELSE [canonical EXCEPT ![e] = linking.name]
    /\ edit' = Edits({linking.name})
    /\ raced' = IF linking.stale THEN raced \cup {linking.name} ELSE raced
    /\ UNCHANGED aliases

\* Mutant: canonical names only are compared.
CheckCanonicalNames(m, e, names) ==
    /\ edit[m] = NoEdit /\ Exists(e) /\ Cardinality(names) <= MAX_ALIASES
    /\ \A d \in Entities \ {e} : canonical[d] \notin names
    /\ edit' = [edit EXCEPT ![m] = [entity |-> e, aliases |-> names, stale |-> FALSE]]
    /\ UNCHANGED <<canonical, aliases, linking, raced>>

\* normalizeAndValidateAliases: 409 if another row has one of the names.
CheckAliases(m, e, names) ==
    /\ edit[m] = NoEdit /\ Exists(e) /\ Cardinality(names) <= MAX_ALIASES
    /\ \A name \in names : Named(name) \subseteq {e}
    /\ edit' = [edit EXCEPT ![m] = [entity |-> e, aliases |-> names, stale |-> FALSE]]
    /\ UNCHANGED <<canonical, aliases, linking, raced>>

\* The route may still fail, on the owner's role for one.
DropEdit(m) ==
    /\ edit[m] # NoEdit /\ edit' = [edit EXCEPT ![m] = NoEdit]
    /\ UNCHANGED <<canonical, aliases, linking, raced>>

\* The update by id.
WriteAliases(m) ==
    /\ edit[m] # NoEdit
    /\ aliases' = [aliases EXCEPT ![edit[m].entity] = edit[m].aliases]
    /\ edit' = [Edits(edit[m].aliases) EXCEPT ![m] = NoEdit]
    /\ linking' = Link(edit[m].aliases)
    /\ raced' = IF edit[m].stale THEN raced \cup edit[m].aliases ELSE raced
    /\ UNCHANGED canonical

NamesNext ==
    \/ \E name \in Names : FindEntity(name)
    \/ \E e \in Entities : CreateEntity(e)
    \/ \E m \in Members : \/ \E e \in Entities, names \in SUBSET Names : CheckAliases(m, e, names)
                          \/ DropEdit(m) \/ WriteAliases(m)

NamesSpec == NamesInit /\ [][NamesNext]_nameVars

------------------------------------------------------------------------------
\* "exactly one entity per name per workspace" (entityService.js): no name resolves to
\* two rows, but for one that was looked up before another request wrote it and was
\* written after; nothing in the database prevents that.
OneEntityPerName ==
    \A name \in Names : Cardinality(Named(name)) > 1 => name \in raced

==============================================================================

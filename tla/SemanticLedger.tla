--------------------------- MODULE SemanticLedger ---------------------------
(***************************************************************************)
(* LocalSSMStore of packages/cli/src/lib/semantic-state-machine.ts: every  *)
(* process loads states.json and transitions.json when it opens the store  *)
(* and writes both, whole, after every change.  appendTransition and       *)
(* importBundle look up no state: a transition may name any ids, and one   *)
(* without fromId comes from Genesis.                                      *)
(*                                                                         *)
(* A state has an id and two parts of content: what assertNoStateMutation  *)
(* compares (createdAt, actor, score) and what it does not (the keys of    *)
(* labels and of the descriptor, which the replacer list of JSON.stringify *)
(* leaves out).                                                            *)
(***************************************************************************)
EXTENDS Integers, FiniteSets

CONSTANTS
  Processes,
  Ids, Heads, Nested,  \* ids and the two parts of content
  Genesis,             \* the fromId that is not given
  TornFile,            \* a file that does not parse
  MaxBundle,           \* bound: states of a bundle, and its transitions
  MaxChanges,          \* bound: puts, transitions and imports
  MaxTears             \* bound: processes that stop in a write

ASSUME LedgerAssumption == MaxChanges \in Nat /\ MaxTears \in Nat /\ MaxBundle \in Nat

\* A truncated file is not the text of any set of states or transitions.
ASSUME TornAssumption ==
  /\ \A states \in SUBSET [id : Ids, head : Heads, nested : Nested] : TornFile # states
  /\ \A transitions \in SUBSET ((Ids \cup {Genesis}) \X Ids) : TornFile # transitions

VARIABLES
  statesFile,       \* the states in states.json, or TornFile
  transitionsFile,  \* the pairs in transitions.json, or TornFile
  store,            \* per process: [open, states, transitions, saving]
  changes, tears,
  shared,           \* history: two processes had the store open at one time
  imported,         \* history: a bundle was imported, or a part of one
  refused           \* history: importBundle threw in its loop over the states

ledgerVars == <<statesFile, transitionsFile, store, changes, tears, shared, imported, refused>>

States == [id : Ids, head : Heads, nested : Nested]
NoStore == [open |-> FALSE, states |-> {}, transitions |-> {}, saving |-> "no"]
Quiet(p) == store[p].open /\ store[p].saving = "no"
IdsOf(states) == {s.id : s \in states}
Transitions == (Ids \cup {Genesis}) \X Ids

\* Map entries of the same ids are replaced.
WithStates(states, new) == {t \in states : t.id \notin IdsOf(new)} \cup new

\* What a bundle's states come to in a Map: one per id.
Bundles == {new \in SUBSET States :
              /\ Cardinality(new) <= MaxBundle
              /\ \A s, t \in new : s.id = t.id => s = t}

BundleMoves == {moves \in SUBSET Transitions : Cardinality(moves) <= MaxBundle}

\* load: a file that does not parse is an empty one.
Loaded(file) == IF file = TornFile THEN {} ELSE file

\* Mutant: a state with another content is taken as a new version.
NoMutationSkipped(states, s) == TRUE

\* assertNoStateMutation
NoMutation(states, s) == \A t \in states : t.id = s.id => t.head = s.head

-----------------------------------------------------------------------------
LedgerInit ==
  /\ statesFile = {} /\ transitionsFile = {}
  /\ store = [p \in Processes |-> NoStore]
  /\ changes = 0 /\ tears = 0 /\ shared = FALSE /\ imported = FALSE /\ refused = FALSE

OpenStore(p) ==
  /\ ~store[p].open
  /\ store' = [store EXCEPT ![p] =
                 [open |-> TRUE, states |-> Loaded(statesFile),
                  transitions |-> Loaded(transitionsFile), saving |-> "no"]]
  /\ shared' = (shared \/ \E q \in Processes : store[q].open)
  /\ UNCHANGED <<statesFile, transitionsFile, changes, tears, imported, refused>>

\* Mutant: a change that is not saved.
ChangesUnsaved(p, states, transitions) ==
  /\ changes < MaxChanges
  /\ changes' = changes + 1
  /\ store' = [store EXCEPT ![p] = [@ EXCEPT !.states = states, !.transitions = transitions]]
  /\ UNCHANGED <<statesFile, transitionsFile, tears, shared>>

\* A change in memory; save follows.
Changes(p, states, transitions) ==
  /\ changes < MaxChanges
  /\ changes' = changes + 1
  /\ store' = [store EXCEPT ![p] = [@ EXCEPT !.states = states, !.transitions = transitions,
                                             !.saving = "states"]]
  /\ UNCHANGED <<statesFile, transitionsFile, tears, shared>>

PutState(p, s) ==
  /\ Quiet(p) /\ NoMutation(store[p].states, s)
  /\ Changes(p, WithStates(store[p].states, {s}), store[p].transitions)
  /\ UNCHANGED <<imported, refused>>

\* appendTransition: the schema is all that is checked.
AppendTransition(p, t) ==
  /\ Quiet(p)
  /\ Changes(p, store[p].states, store[p].transitions \cup {t})
  /\ UNCHANGED <<imported, refused>>

\* Mutant: the bundle's transitions replace the ones that are there.
ImportReplaces(p, new, moves) ==
  /\ Quiet(p)
  /\ Changes(p, WithStates(store[p].states, new), moves)
  /\ imported' = TRUE /\ UNCHANGED refused

\* importBundle: the bundle's states replace the ones of the same id, and its
\* transitions, which need not be between them, join the ones that are there.
ImportBundle(p, new, moves) ==
  /\ Quiet(p)
  /\ Changes(p, WithStates(store[p].states, new), store[p].transitions \cup moves)
  /\ imported' = TRUE /\ UNCHANGED refused

\* It throws at a state that passes the schema and not the assertions (an id
\* that is no hash, a score that is no integer): the states before it are in
\* the map, and nothing is saved.
ImportThrows(p, new) ==
  /\ Quiet(p)
  /\ changes < MaxChanges
  /\ changes' = changes + 1
  /\ store' = [store EXCEPT ![p] = [@ EXCEPT !.states = WithStates(store[p].states, new)]]
  /\ imported' = TRUE /\ refused' = TRUE
  /\ UNCHANGED <<statesFile, transitionsFile, tears, shared>>

\* save: states.json, then transitions.json.
SaveStates(p) ==
  /\ store[p].saving = "states"
  /\ statesFile' = store[p].states
  /\ store' = [store EXCEPT ![p].saving = "transitions"]
  /\ UNCHANGED <<transitionsFile, changes, tears, shared, imported, refused>>

SaveTransitions(p) ==
  /\ store[p].saving = "transitions"
  /\ transitionsFile' = store[p].transitions
  /\ store' = [store EXCEPT ![p].saving = "no"]
  /\ UNCHANGED <<statesFile, changes, tears, shared, imported, refused>>

\* The process ends, between the writes of a save or outside.
EndProcess(p) ==
  /\ store[p].open
  /\ store' = [store EXCEPT ![p] = NoStore]
  /\ UNCHANGED <<statesFile, transitionsFile, changes, tears, shared, imported, refused>>

\* It ends in the middle of one: writeFileSync has truncated the file.
TearFile(p) ==
  /\ tears < MaxTears
  /\ tears' = tears + 1
  /\ \/ store[p].saving = "states" /\ statesFile' = TornFile /\ UNCHANGED transitionsFile
     \/ store[p].saving = "transitions" /\ transitionsFile' = TornFile /\ UNCHANGED statesFile
  /\ store' = [store EXCEPT ![p] = NoStore]
  /\ UNCHANGED <<changes, shared, imported, refused>>

LedgerNext ==
  \E p \in Processes :
    \/ OpenStore(p) \/ SaveStates(p) \/ SaveTransitions(p) \/ EndProcess(p) \/ TearFile(p)
    \/ \E s \in States : PutState(p, s)
    \/ \E t \in Transitions : AppendTransition(p, t)
    \/ \E new \in Bundles :
         \/ ImportThrows(p, new)
         \/ \E moves \in BundleMoves : ImportBundle(p, new, moves)

LedgerSpec == LedgerInit /\ [][LedgerNext]_ledgerVars

-----------------------------------------------------------------------------
\* The type invariant, with the key of a Map: one state per id.
LedgerTypeOK ==
  /\ statesFile = TornFile \/ statesFile \in SUBSET States
  /\ \A p \in Processes : \A s, t \in store[p].states : s.id = t.id => s = t
  /\ transitionsFile = TornFile \/ transitionsFile \in SUBSET Transitions

\* The processes use the store one after the other and none stops in a write.
Orderly == ~shared /\ tears = 0

\* "states are append-only", as far as the code keeps it: used in an orderly
\* way and without imports, the file never loses a state nor changes what
\* assertNoStateMutation compares, across processes that end anywhere else.
OrderlyAppendOnly ==
  [][Orderly' /\ ~imported' =>
       \A s \in statesFile : \E t \in statesFile' : t.id = s.id /\ t.head = s.head]_ledgerVars

\* Used in an orderly way, imports of any bundle included, no transition and
\* no id ever leaves the files, across processes that end between the two
\* writes of save.
OrderlyKeeps ==
  [][Orderly' => /\ transitionsFile \subseteq transitionsFile'
                 /\ IdsOf(statesFile) \subseteq IdsOf(statesFile')]_ledgerVars

\* Used in an orderly way, a process that is not saving lists what the next
\* one will load: its transitions are the file's and so are its states, until
\* an import throws and leaves a part of its bundle in the map only.
MemoryIsFile ==
  Orderly => \A p \in Processes : Quiet(p) =>
    /\ store[p].transitions = transitionsFile
    /\ ~refused => store[p].states = statesFile

\* What holds of the two files in every state: types, one state per id, and
\* what an orderly user lists on file.
LedgerInvariant == LedgerTypeOK /\ MemoryIsFile
=============================================================================

---------------------------- MODULE AmeResponder ----------------------------
(***************************************************************************)
(* The answer to a global Alias Mapping Enquiry (openlcb/IfCan.cpp,        *)
(* AMEGlobalQueryHandler): one AMD frame for every local alias in use.     *)
(* The flow walks over the pool of the local AliasCache by index, one      *)
(* frame at a time, while nodes get and lose aliases and more enquiries    *)
(* come in.                                                                *)
(*                                                                         *)
(* The pool is seen through AliasCache::retrieve(), which tells an entry   *)
(* from an unused one by its alias; remove() zeroes the node ID only.      *)
(*                                                                         *)
(* No name is one of AliasCache's: AliasCacheProofs extends both modules.  *)
(***************************************************************************)
EXTENDS Integers

CONSTANTS
    Nodes,          \* local virtual nodes
    LocalAliases,   \* positive numbers
    PoolSize,       \* local_aliases()->size()
    MaxEnquiries,   \* bound: global enquiries
    MaxChanges      \* bound: changes of the local cache

ASSUME ResponderAssumption ==
    /\ Nodes \cap {"none", "reserved"} = {}
    /\ LocalAliases \subseteq Nat \ {0} /\ PoolSize \in Nat
    /\ MaxEnquiries \in Nat /\ MaxChanges \in Nat

VARIABLES
    pool,       \* node and alias of each entry
    state,      \* the flow's state
    nextIndex, needRerun,
    sent,       \* the mapping in the AMD frame sent last, as a set
    owed,       \* mappings to announce: there since the last enquiry
    enquiries, changes

responderVars == <<pool, state, nextIndex, needRerun, sent, owed, enquiries, changes>>

Indexes == 0..(PoolSize - 1)
Entry == [node : Nodes \cup {"none", "reserved"}, alias : LocalAliases \cup {0}]

ResponderInit ==
    /\ pool = [i \in Indexes |-> [node |-> "none", alias |-> 0]]
    /\ state = "terminated"
    /\ nextIndex = 0 /\ needRerun = FALSE
    /\ sent = {} /\ owed = {}
    /\ enquiries = 0 /\ changes = 0

InUse == {i \in Indexes : pool[i].node # "none"}
Mappings == {pool[i] : i \in {j \in Indexes : pool[j].node \in Nodes}}
-----------------------------------------------------------------------------
(* The local cache. *)

\* A node takes an alias, or one is reserved, in an entry of the free list.
AddEntry(i, n, a) ==
    /\ changes < MaxChanges /\ i \notin InUse
    /\ \A j \in InUse : pool[j].alias # a /\ (pool[j].node # n \/ n = "reserved")
    /\ pool' = [pool EXCEPT ![i] = [node |-> n, alias |-> a]]
    /\ changes' = changes + 1
    /\ UNCHANGED <<state, nextIndex, needRerun, sent, owed, enquiries>>

\* AliasCache::remove(): the entry keeps its alias.
RemoveEntry(i) ==
    /\ changes < MaxChanges /\ i \in InUse
    /\ pool' = [pool EXCEPT ![i].node = "none"]
    /\ owed' = owed \ {pool[i]}
    /\ changes' = changes + 1
    /\ UNCHANGED <<state, nextIndex, needRerun, sent, enquiries>>

\* AliasCache::retrieve()
Retrieve(i) == pool[i].alias # 0
-----------------------------------------------------------------------------
(* The flow. *)

\* Mutant: an enquiry that comes while the flow is busy is taken for answered.
Send_NoRerun ==
    /\ enquiries < MaxEnquiries
    /\ enquiries' = enquiries + 1
    /\ owed' = Mappings
    /\ state' = IF state = "terminated" THEN "rerun" ELSE state
    /\ UNCHANGED <<pool, nextIndex, needRerun, sent, changes>>

\* send(): a global enquiry is dispatched.
Send ==
    /\ enquiries < MaxEnquiries
    /\ enquiries' = enquiries + 1
    /\ needRerun' = TRUE
    /\ owed' = Mappings
    /\ state' = IF state = "terminated" THEN "rerun" ELSE state
    /\ UNCHANGED <<pool, nextIndex, sent, changes>>

\* find_next() from index k, up to the next wait: the indexes of entries with
\* a node ID of a real node.
Left(k) == {i \in Indexes : i >= k /\ Retrieve(i) /\ pool[i].node \in Nodes}

\* The first of them.
Following(k) == CHOOSE i \in Left(k) : \A j \in Left(k) : i <= j

\* Mutant: the request to start over is not taken back.
FindNext_Endless(k) ==
    IF Left(k) # {}
    THEN /\ nextIndex' = Following(k) /\ state' = "fill_response"
         /\ UNCHANGED needRerun
    ELSE /\ state' = IF needRerun THEN "rerun" ELSE "terminated"
         /\ nextIndex' = PoolSize
         /\ UNCHANGED needRerun

\* find_next(), and rerun() when another enquiry came in.
FindNext(k) ==
    IF Left(k) # {}
    THEN /\ nextIndex' = Following(k) /\ state' = "fill_response"
         /\ UNCHANGED needRerun
    ELSE IF ~needRerun
    THEN /\ state' = "terminated" /\ nextIndex' = PoolSize
         /\ UNCHANGED needRerun
    ELSE /\ needRerun' = FALSE
         /\ IF Left(0) # {}
            THEN nextIndex' = Following(0) /\ state' = "fill_response"
            ELSE nextIndex' = PoolSize /\ state' = "terminated"

\* rerun() as the first state of the flow: needRerun_ was set by send().
Rerun ==
    /\ state = "rerun"
    /\ FindNext(PoolSize)
    /\ UNCHANGED <<pool, sent, owed, enquiries, changes>>

\* fill_response(): the frame buffer is there.
FillResponse ==
    /\ state = "fill_response"
    /\ IF Retrieve(nextIndex)
       THEN /\ sent' = {pool[nextIndex]}
            /\ owed' = owed \ {pool[nextIndex]}
            /\ nextIndex' = nextIndex + 1
            /\ state' = "find_next"
            /\ UNCHANGED needRerun
       ELSE FindNext(nextIndex) /\ UNCHANGED <<sent, owed>>
    /\ UNCHANGED <<pool, enquiries, changes>>

\* find_next(): the frame is out.
Continue ==
    /\ state = "find_next"
    /\ FindNext(nextIndex)
    /\ UNCHANGED <<pool, sent, owed, enquiries, changes>>
-----------------------------------------------------------------------------
Flow == Rerun \/ FillResponse \/ Continue

ResponderNext ==
    \/ Flow
    \/ Send
    \/ \E i \in Indexes, n \in Nodes \cup {"reserved"}, a \in LocalAliases :
          AddEntry(i, n, a)
    \/ \E i \in Indexes : RemoveEntry(i)

ResponderSpec == ResponderInit /\ [][ResponderNext]_responderVars

\* The executor runs the flow, and frames get out.
FairResponderSpec == ResponderSpec /\ WF_responderVars(Flow)
-----------------------------------------------------------------------------
\* Type correctness; the flow waits for a buffer at an entry of the pool.
ResponderTypeOK ==
    /\ pool \in [Indexes -> Entry]
    /\ state \in {"terminated", "rerun", "fill_response", "find_next"}
    /\ nextIndex \in 0..PoolSize
    /\ state = "fill_response" => nextIndex \in Indexes
    /\ needRerun \in BOOLEAN
    /\ enquiries \in 0..MaxEnquiries /\ changes \in 0..MaxChanges

\* When the flow ends, every mapping that was in the cache at the last enquiry
\* and still is there has been announced after that enquiry.
EveryAliasAnnounced == state = "terminated" => owed = {}

\* The flow comes to an end after every enquiry.
EnquiryEnds == needRerun ~> (state = "terminated" /\ ~needRerun)

\* "The alias disappeared in the mean time. Release." (IfCan.cpp,
\* fill_response()): what an AMD frame announces is a mapping of a node.
AnnouncesMapping == \A m \in sent : m.node \in Nodes
=============================================================================

--------------------------- MODULE EventListener ---------------------------
(***************************************************************************)
(* backend/internal/blockchain/event_listener.go: every five seconds the   *)
(* listener asks for the head of the chain and, token by token, for the    *)
(* logs of the blocks since the last poll, which it hands to the callback. *)
(* The cursor is in memory.  cmd/api never constructs a listener; this is  *)
(* what it does once something starts it.                                  *)
(***************************************************************************)
EXTENDS Integers, Sequences, FiniteSets, FiniteSetsExt, Functions

CONSTANTS
    Tokens,    \* the addresses given to WatchToken, each once
    Batch,     \* blocks per poll, 100 in the code
    MaxBlocks  \* bound of the model on the chain

ASSUME ListenerAssumption == Batch \in Nat \ {0} /\ MaxBlocks \in Nat

VARIABLES
    head,       \* the number of the latest block
    lastBlock,  \* the cursor
    listener,   \* "off", "waiting" for its ticker, or "polling"
    endBlock,   \* the last block of the poll under way
    todo,       \* the tokens it has still to ask for
    handed,     \* the blocks whose events the callback was given, by token
    lost,       \* history: the blocks of queries that failed, by token
    begun       \* history: the block the listener started from

cursor == <<lastBlock, listener, endBlock, todo, begun>>
events == <<handed, lost>>
listenerVars == <<head, cursor, events>>

ListenerInit ==
    /\ head = 0 /\ lastBlock = 0 /\ endBlock = 0 /\ begun = 0
    /\ listener = "off"
    /\ todo = {}
    /\ handed = [t \in Tokens |-> <<>>]
    /\ lost = [t \in Tokens |-> {}]

MineBlock ==
    /\ head < MaxBlocks
    /\ head' = head + 1
    /\ UNCHANGED <<cursor, events>>

\* Start; one whose request for the header fails leaves the listener off
StartListener ==
    /\ listener = "off"
    /\ listener' = "waiting"
    /\ lastBlock' = head /\ begun' = head
    /\ UNCHANGED <<head, endBlock, todo, events>>

\* the ticker fires; without the header or without a new block nothing happens
Poll ==
    /\ listener = "waiting" /\ head > lastBlock
    /\ listener' = "polling"
    /\ endBlock' = Min({head, lastBlock + Batch})
    /\ todo' = Tokens
    /\ UNCHANGED <<head, lastBlock, begun, events>>

\* mutant: the block of the cursor is asked for again
BlocksFromCursor == [i \in 1..(endBlock - lastBlock + 1) |-> lastBlock + i - 1]

Blocks == [i \in 1..(endBlock - lastBlock) |-> lastBlock + i]

\* a query that fails is logged, and the poll goes on
ProcessBlocks(t) ==
    /\ listener = "polling" /\ t \in todo
    /\ todo' = todo \ {t}
    /\ \/ /\ handed' = [handed EXCEPT ![t] = @ \o Blocks]
          /\ UNCHANGED lost
       \/ /\ lost' = [lost EXCEPT ![t] = @ \cup Range(Blocks)]
          /\ UNCHANGED handed
    /\ UNCHANGED <<head, lastBlock, listener, endBlock, begun>>

Advance ==
    /\ listener = "polling" /\ todo = {}
    /\ lastBlock' = endBlock
    /\ listener' = "waiting"
    /\ UNCHANGED <<head, endBlock, todo, begun, events>>

\* Stop and the end of the context are seen between two polls, a crash at any time
StopListener ==
    /\ listener # "off"
    /\ listener' = "off"
    /\ todo' = {}
    /\ UNCHANGED <<head, lastBlock, endBlock, begun, events>>

ListenerNext ==
    \/ MineBlock \/ StartListener \/ Poll \/ Advance \/ StopListener
    \/ \E t \in Tokens : ProcessBlocks(t)

-----------------------------------------------------------------------------
ListenerTypeOK ==
    /\ head \in 0..MaxBlocks /\ lastBlock \in 0..head /\ endBlock \in 0..head /\ begun \in 0..head
    /\ listener \in {"off", "waiting", "polling"}
    /\ todo \subseteq Tokens
    /\ handed \in [Tokens -> Seq(1..head)]
    /\ lost \in [Tokens -> SUBSET (1..head)]

Passed(t) == IF listener = "polling" /\ t \notin todo THEN endBlock ELSE lastBlock

\* The events of a block are handed over at most once and in the order of the chain, also
\* when a crash cuts a poll short and the listener starts again; and a block the listener
\* has gone past since it started was handed over, unless the query for it failed.
EventsAreHandledOnce ==
    \A t \in Tokens :
        /\ \A i, j \in DOMAIN handed[t] : i < j => handed[t][i] < handed[t][j]
        /\ listener # "off" => (begun + 1)..Passed(t) \subseteq Range(handed[t]) \cup lost[t]

\* event_listener.go:16 says that the events are brought to the local database.  The
\* cursor passes queries that failed, and a restart begins at the head.
NoEventIsLost == \A t \in Tokens : 1..lastBlock \subseteq Range(handed[t])
=============================================================================

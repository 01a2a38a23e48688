------------------------------- MODULE EchoSession -------------------------------
(***************************************************************************)
(* A session of allocation_async/server.cpp and its handler_memory, from   *)
(* the accept handler that makes it on.                                    *)
(*                                                                         *)
(* asio keeps an outstanding operation, and in it the handler, in a block  *)
(* that the handler's allocator gives it.  When the operation completes,   *)
(* the handler is moved out of the block, the block is deallocated, the    *)
(* handler is called, and it is destroyed.  The block may thus be used     *)
(* again by the operation that the handler starts, and it lies inside the  *)
(* session that the handler keeps alive.                                   *)
(***************************************************************************)
EXTENDS Naturals, Sequences

CONSTANTS
  MaxChunks,  \* bound: chunks of data sent by the client
  Parts       \* async_write takes up to so many writes for a chunk

ASSUME EchoAssumption == MaxChunks \in Nat /\ Parts \in Nat \ {0}

Kind == {"read", "write"}

VARIABLES
  small,   \* kinds of operations for which size < sizeof(_storage)
  client,  \* the peer: "up", "half" (sent FIN), "reset"
  sent,    \* chunks sent by the client; the n-th carries n
  op,      \* the outstanding operation: a kind, or "none"
  place,   \* where its block is: "storage", "heap", "none"
  isUse,   \* _is_use
  called,  \* the handler that was moved out of its block: a kind, "accept" or "none"
  phase,   \* it is "called", or "ended" (its body has run)
  ok,      \* its error code: none
  refs,    \* number of shared_ptrs to the session
  alive,   \* the session was not destroyed
  data,    \* _data: the chunk in it
  left,    \* parts of it still to be written
  echoed   \* history: chunks written back

clientVars  == <<client, sent>>
blockVars   == <<op, place, isUse>>
handlerVars == <<called, phase, ok>>
lifeVars    == <<refs, alive>>
dataVars    == <<data, left, echoed>>
vars == <<small, clientVars, blockVars, handlerVars, lifeVars, dataVars>>

-----------------------------------------------------------------------------
(* handler_memory *)

Allocate(k) ==
  LET fits == ~isUse /\ k \in small
  IN  /\ op' = k
      /\ place' = IF fits THEN "storage" ELSE "heap"
      /\ isUse' = (isUse \/ fits)

(* Mutant: _is_use is not reset. *)
DeallocateOnly ==
  /\ op' = "none" /\ place' = "none"
  /\ UNCHANGED isUse

Deallocate ==
  /\ op' = "none" /\ place' = "none"
  /\ isUse' = (isUse /\ place # "storage")

-----------------------------------------------------------------------------
(* The accept handler is being called; it has made the session and holds    *)
(* the first shared_ptr to it.                                              *)
Init ==
  /\ small \in SUBSET Kind
  /\ client = "up" /\ sent = 0
  /\ op = "none" /\ place = "none" /\ isUse = FALSE
  /\ called = "accept" /\ phase = "called" /\ ok = TRUE
  /\ refs = 1 /\ alive = TRUE
  /\ data = 0 /\ left = 0 /\ echoed = << >>

ClientSend ==
  /\ client = "up" /\ sent < MaxChunks
  /\ sent' = sent + 1
  /\ UNCHANGED <<small, client, blockVars, handlerVars, lifeVars, dataVars>>

ClientLeave(how) ==
  /\ client = "up" \/ (client = "half" /\ how = "reset")
  /\ client' = how
  /\ UNCHANGED <<small, sent, blockVars, handlerVars, lifeVars, dataVars>>

(* An operation has ended: its handler is moved out, its block is freed. *)
Complete(k, success) ==
  /\ op = k /\ called = "none"
  /\ Deallocate
  /\ called' = k /\ phase' = "called" /\ ok' = success
  /\ UNCHANGED <<small, clientVars, lifeVars>>

(* What has arrived before a reset may still be read after it. *)
ReadCompletes ==
  /\ data < sent
  /\ Complete("read", TRUE)
  /\ data' = data + 1 /\ left' = Parts
  /\ UNCHANGED echoed

(* The kernel takes a part of the buffer, or all that is left of it. *)
WriteCompletes ==
  /\ client # "reset"
  /\ Complete("write", TRUE)
  /\ \/ left > 1 /\ left' = left - 1 /\ UNCHANGED echoed
     \/ left' = 0 /\ echoed' = Append(echoed, data)
  /\ UNCHANGED data

(* End of stream, or a reset. *)
Fails(k) ==
  /\ client = "reset" \/ (k = "read" /\ client = "half" /\ data = sent)
  /\ Complete(k, FALSE)
  /\ UNCHANGED dataVars

(* Mutant: do_read and do_write capture only this. *)
StartUnowned(k) == Allocate(k) /\ UNCHANGED refs

(* Mutant: the session keeps a shared_ptr to itself besides. *)
StartKeepsSelf(k) == Allocate(k) /\ refs' = refs + (IF called = "accept" THEN 2 ELSE 1)

(* do_read and do_write capture self. *)
Start(k) == Allocate(k) /\ refs' = refs + 1

(* The handler is called: start() after the accept, do_write after a read,  *)
(* do_read after a write; async_write itself goes on while parts are left;  *)
(* after an error nothing is started.                                       *)
HandlerBody ==
  /\ called # "none" /\ phase = "called"
  /\ IF ok
     THEN Start(IF called = "read" \/ left > 0 THEN "write" ELSE "read")
     ELSE UNCHANGED <<blockVars, refs>>
  /\ phase' = "ended"
  /\ UNCHANGED <<small, clientVars, called, ok, alive, dataVars>>

(* The handler is destroyed, and the session with its last shared_ptr. *)
HandlerDestroyed ==
  /\ called # "none" /\ phase = "ended"
  /\ called' = "none"
  /\ refs' = refs - 1
  /\ alive' = (refs' > 0)
  /\ UNCHANGED <<small, clientVars, blockVars, phase, ok, dataVars>>

Run == ReadCompletes \/ WriteCompletes \/ HandlerBody \/ HandlerDestroyed \/ \E k \in Kind : Fails(k)

Next == ClientSend \/ ClientLeave("half") \/ ClientLeave("reset") \/ Run

(* run() executes every handler that is ready; the client reads its echo. *)
Spec == Init /\ [][Next]_vars /\ WF_vars(Run)

-----------------------------------------------------------------------------

(* The storage is marked as used exactly while a block lies in it, and an   *)
(* operation that fits is never sent to the heap: the block of the previous *)
(* one was given back before its handler started the next.                  *)
StorageSuffices ==
  /\ isUse <=> place = "storage"
  /\ op \in small => place = "storage"

(* As long as an operation is outstanding, or a handler runs, the session - *)
(* its socket, its buffer and the memory that the operation itself lies in  *)
(* - exists; it is destroyed with nothing outstanding and its storage free. *)
SessionOutlivesHandlers ==
  alive = FALSE => op = "none" /\ called = "none" /\ ~isUse

(* Once the client has gone, the session is destroyed and its socket closed. *)
SessionEnds == client # "up" ~> ~alive

(* No handler runs and no operation can complete. *)
SessionRests ==
  /\ called = "none" /\ op # "write"
  /\ op = "read" => client # "reset" /\ data >= sent /\ ~ (client = "half" /\ data = sent)

(* When the session rests, its chain of handlers has not broken: as long as *)
(* the client is there it reads, and has written back all that was sent;    *)
(* and it is gone, with its socket closed, if and only if the client is.    *)
RestsWhenEchoed ==
  SessionRests =>
    IF alive THEN client = "up" /\ op = "read" /\ Len(echoed) = sent ELSE client # "up"

-----------------------------------------------------------------------------
(* The inductive invariant of the proofs. *)

TypeOK ==
  /\ small \in SUBSET Kind
  /\ op \in Kind \cup {"none"}
  /\ place \in {"storage", "heap", "none"}
  /\ isUse \in BOOLEAN
  /\ called \in Kind \cup {"accept", "none"}
  /\ phase \in {"called", "ended"}
  /\ refs \in 0 .. 2
  /\ alive \in BOOLEAN

(* A block is kept for the outstanding operation only; the one before was   *)
(* given back when its handler was called.                                  *)
OneBlock ==
  /\ op = "none" <=> place = "none"
  /\ called # "none" /\ phase = "called" => op = "none"

(* The shared_ptrs are those of the operation and of the handler being run. *)
RefsCounted ==
  /\ refs = (IF op = "none" THEN 0 ELSE 1) + (IF called = "none" THEN 0 ELSE 1)
  /\ alive <=> refs > 0

EchoInv == TypeOK /\ StorageSuffices /\ OneBlock /\ RefsCounted

(* _data is one buffer for reads and writes: what is written back is every  *)
(* chunk read, in order, each once, and at most the last is still missing.  *)
EchoesInOrder ==
  /\ echoed = [i \in 1 .. Len(echoed) |-> i]
  /\ Len(echoed) \in {data - 1, data} /\ data <= sent

(* Before and during a write _data holds the chunk that is missing, before  *)
(* and during a read none is.                                               *)
WritePending == Len(echoed) = data - 1 /\ left > 0
ReadPending  == Len(echoed) = data /\ left = 0

BufferInv ==
  /\ sent \in Nat /\ data \in Nat /\ left \in Nat /\ echoed \in Seq(Nat) /\ ok \in BOOLEAN
  /\ EchoesInOrder
  /\ op = "read" => ReadPending
  /\ op = "write" => WritePending
  /\ phase = "called" /\ ok =>
       /\ called = "accept" => ReadPending
       /\ called = "read" => WritePending
       /\ called = "write" => WritePending \/ ReadPending

(* A handler that was told of no error has started the next operation, and  *)
(* only the client's going makes an operation fail: so nothing is           *)
(* outstanding, and no handler runs, only when the client has gone.         *)
Chained ==
  /\ client \in {"up", "half", "reset"}
  /\ called # "none" /\ ~ok => client # "up"
  /\ called # "none" /\ phase = "ended" /\ ok => op # "none"
  /\ called = "none" /\ op = "none" => client # "up"

=============================================================================

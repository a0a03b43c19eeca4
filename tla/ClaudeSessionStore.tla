------------------------- MODULE ClaudeSessionStore -------------------------
(***************************************************************************)
(* inMemorySessionStore (pkg/llm/claude/session_store.go) at the level of   *)
(* its slices.  A session object holds a slice header (array, length); the  *)
(* arrays live in a heap, append grows an array only when it is full, and   *)
(* Clone makes a new one, so aliasing shows.                                *)
(*                                                                         *)
(* Load, Fork and Summary take the object's pointer under the read lock and *)
(* read the object after releasing it.  Append rewrites the header under    *)
(* the write lock only, a data race: a reader that overlaps it may see the  *)
(* array of one header with the length of the other.                        *)
(***************************************************************************)
EXTENDS Integers, Sequences, FiniteSets, SequencesExt

CONSTANTS
  StCalls,    \* calls of the store's methods
  StIds,      \* session ids; one of them, StFirst, is stored at the start
  StFirst,
  StMessages, \* messages, named by the id that extractMessageID returns
  StHistory   \* the messages of StFirst

ASSUME StAssumption == StFirst \in StIds /\ StHistory \in Seq(StMessages)

VARIABLES
  stMap,    \* s.sessions: id -> object, 0 for none
  stObj,    \* the session objects ever stored: header, and the messages put in (history)
  stHeap,   \* the arrays: sequences of cells, "unset" beyond every length
  stWrite,  \* the header Append is writing under s.mu: object 0 when nobody is
  stCall,   \* where each call is
  stCopy    \* what Load and Fork returned: header and its contents then (history)

stVars == <<stMap, stObj, stHeap, stWrite, stCall, stCopy>>

NoHeader == [arr |-> 0, len |-> 0]
Cells(h) == [i \in 1..h.len |-> IF h.arr # 0 /\ i <= Len(stHeap[h.arr]) THEN stHeap[h.arr][i] ELSE "garbage"]

\* Slice headers lead into the heap, and the calls keep their types.
StTypeOK ==
  /\ stMap \in [StIds -> 0..Len(stObj)]
  /\ \A o \in 1..Len(stObj) : stObj[o].h.arr \in 1..Len(stHeap) /\ stObj[o].h.len \in 0..Len(stHeap[stObj[o].h.arr])
  /\ \A c \in StCalls : /\ stCall[c].pc \in {"idle", "load", "fork", "store", "append", "done", "not found"}
                        /\ stCall[c].obj \in 0..Len(stObj) /\ stCall[c].fork.arr \in 0..Len(stHeap)
                        /\ stCall[c].from \in StMessages \cup {"all"}
                        /\ stCopy[c].h.arr \in 0..Len(stHeap)

\* One stored session, its array with room for one message more: what calls of
\* Append leave behind, growing the array by doubling.
StInit ==
  /\ stHeap = <<Append(StHistory, "unset")>>
  /\ stObj = <<[h |-> [arr |-> 1, len |-> Len(StHistory)], put |-> StHistory]>>
  /\ stMap = [i \in StIds |-> IF i = StFirst THEN 1 ELSE 0]
  /\ stWrite = [obj |-> 0, old |-> NoHeader, new |-> NoHeader]
  /\ stCall = [c \in StCalls |-> [pc |-> "idle", obj |-> 0, fork |-> NoHeader, from |-> "all"]]
  /\ stCopy = [c \in StCalls |-> [h |-> NoHeader, then |-> <<>>, obj |-> 0]]
-----------------------------------------------------------------------------
StUnlocked == stWrite.obj = 0

\* What an unlocked read of an object's header may yield.
StRead(o) ==
  IF stWrite.obj = o
  THEN [arr : {stWrite.old.arr, stWrite.new.arr}, len : {stWrite.old.len, stWrite.new.len}]
  ELSE {stObj[o].h}

\* Mutated form: the header alone is copied.
StShared(h) == [heap |-> stHeap, h |-> h]

\* slices.Clone: a new array with the cells of h, and a header for it.
StCloned(h) == [heap |-> Append(stHeap, Cells(h)), h |-> [arr |-> Len(stHeap) + 1, len |-> h.len]]

\* shallowCopySession: a copy of the object with messages of its own.
StCopied(h) == StCloned(h)

StDone(c, pc) == stCall' = [stCall EXCEPT ![c].pc = pc]

\* Load, Fork: the lookup under the read lock.
StLookup(c, id, op, from) ==
  /\ stCall[c].pc = "idle" /\ StUnlocked
  /\ stCall' = [stCall EXCEPT ![c].pc = IF stMap[id] = 0 THEN "not found" ELSE op,
                              ![c].obj = stMap[id], ![c].from = from]
  /\ UNCHANGED <<stMap, stObj, stHeap, stWrite, stCopy>>

\* Load copies the object after the lock was released.
StLoad(c) ==
  /\ stCall[c].pc = "load"
  /\ \E h \in StRead(stCall[c].obj) : LET copy == StCopied(h) IN
       /\ stHeap' = copy.heap
       /\ stCopy' = [stCopy EXCEPT ![c] = [h |-> copy.h, then |-> Cells(h), obj |-> stCall[c].obj]]
  /\ StDone(c, "done")
  /\ UNCHANGED <<stMap, stObj, stWrite>>

\* Fork's cutoff: the whole history, or up to and including the first message with
\* the id; nothing when no message has it.
Cutoff(msgs, from) ==
  LET hits == {i \in 1..Len(msgs) : msgs[i] = from}
  IN IF from = "all" THEN Len(msgs) ELSE IF hits = {} THEN 0 ELSE Min(hits)

\* Fork computes the cutoff and clones the prefix, still without the lock ...
StFork(c) ==
  /\ stCall[c].pc = "fork"
  /\ \E h \in StRead(stCall[c].obj) :
       LET clone == StCloned([h EXCEPT !.len = Cutoff(Cells(h), stCall[c].from)]) IN
       /\ stHeap' = clone.heap
       /\ stCall' = [stCall EXCEPT ![c].pc = "store", ![c].fork = clone.h]
  /\ UNCHANGED <<stMap, stObj, stWrite, stCopy>>

\* ... stores the fork under its new id, and returns a copy of it.
StForkStored(c, id) ==
  /\ stCall[c].pc = "store" /\ StUnlocked /\ stMap[id] = 0
  /\ LET h == stCall[c].fork  copy == StCopied(h) IN
     /\ stObj' = Append(stObj, [h |-> h, put |-> Cells(h)])
     /\ stMap' = [stMap EXCEPT ![id] = Len(stObj) + 1]
     /\ stHeap' = copy.heap
     /\ stCopy' = [stCopy EXCEPT ![c] = [h |-> copy.h, then |-> Cells(h), obj |-> Len(stObj) + 1]]
  /\ StDone(c, "done")
  /\ UNCHANGED stWrite

\* Save stores a copy of what the caller gives, replacing the object.
StSave(c, id, msgs) ==
  /\ stCall[c].pc = "idle" /\ StUnlocked
  /\ stHeap' = Append(stHeap, msgs)
  /\ stObj' = Append(stObj, [h |-> [arr |-> Len(stHeap) + 1, len |-> Len(msgs)], put |-> msgs])
  /\ stMap' = [stMap EXCEPT ![id] = Len(stObj) + 1]
  /\ StDone(c, "done")
  /\ UNCHANGED <<stWrite, stCopy>>

\* Append locks the store and appends: in place when the array has room, into an
\* array twice the size otherwise.  The header's words are about to be written.
StAppend(c, id, m) ==
  /\ stCall[c].pc = "idle" /\ StUnlocked
  /\ IF stMap[id] = 0 THEN StDone(c, "not found") /\ UNCHANGED <<stObj, stHeap, stWrite>>
     ELSE LET o == stMap[id]  h == stObj[o].h  cells == stHeap[h.arr]
              room == h.len < Len(cells)
              arr == IF room THEN h.arr ELSE Len(stHeap) + 1
          IN /\ stHeap' = IF room THEN [stHeap EXCEPT ![arr] = [@ EXCEPT ![h.len + 1] = m]]
                          ELSE Append(stHeap, Append(cells, m) \o [i \in 1..(Len(cells) - 1) |-> "unset"])
             /\ stWrite' = [obj |-> o, old |-> h, new |-> [arr |-> arr, len |-> h.len + 1]]
             /\ stObj' = [stObj EXCEPT ![o].put = Append(@, m)]
             /\ stCall' = [stCall EXCEPT ![c].pc = "append", ![c].obj = o]
  /\ UNCHANGED <<stMap, stCopy>>

\* The header is written and the lock released.
StAppended(c) ==
  /\ stCall[c].pc = "append"
  /\ stObj' = [stObj EXCEPT ![stWrite.obj].h = stWrite.new]
  /\ stWrite' = [obj |-> 0, old |-> NoHeader, new |-> NoHeader]
  /\ StDone(c, "done")
  /\ UNCHANGED <<stMap, stHeap, stCopy>>

\* Delete.
StDelete(c, id) ==
  /\ stCall[c].pc = "idle" /\ StUnlocked
  /\ stMap' = [stMap EXCEPT ![id] = 0]
  /\ StDone(c, IF stMap[id] = 0 THEN "not found" ELSE "done")
  /\ UNCHANGED <<stObj, stHeap, stWrite, stCopy>>

StNext == \E c \in StCalls :
  \/ \E id \in StIds, from \in StMessages \cup {"all"} : StLookup(c, id, "fork", from)
  \/ \E id \in StIds : \/ StLookup(c, id, "load", "all") \/ StForkStored(c, id) \/ StDelete(c, id)
                       \/ \E m \in StMessages : StSave(c, id, <<m>>) \/ StAppend(c, id, m)
  \/ StLoad(c) \/ StFork(c) \/ StAppended(c)

StSpec == StInit /\ [][StNext]_stVars
-----------------------------------------------------------------------------
\* Sessions and the copies callers hold are isolated: whatever is appended to, saved
\* over or deleted from the store, a copy keeps the messages it had when it was
\* returned, and a stored session has exactly the messages put into it (the ones it
\* was saved or forked with and those appended to it).
StIsolated ==
  /\ \A c \in StCalls : Cells(stCopy[c].h) = stCopy[c].then
  /\ \A o \in 1..Len(stObj) : stWrite.obj # o => Cells(stObj[o].h) = stObj[o].put

\* A fork starts with the source's messages up to and including the first one with
\* the requested id (unless it read a header that Append was rewriting).
StForkCut ==
  \A c \in StCalls : stCall[c].pc = "store" =>
    LET src == stObj[stCall[c].obj].put  got == Cells(stCall[c].fork)
    IN (\A i \in 1..Len(got) : got[i] \in StMessages) =>
         /\ IsPrefix(got, src)
         /\ stCall[c].from # "all" /\ got # <<>> => got[Len(got)] = stCall[c].from

\* "Implementations must be safe for concurrent use": the messages Load and Fork
\* return are messages of the session.
StCopiesReal == \A c \in StCalls : \A i \in 1..Len(stCopy[c].then) : stCopy[c].then[i] \in StMessages
=============================================================================

------------------------------ MODULE Messages ------------------------------
(***************************************************************************)
(* The request that nnServiceDispatchImpl builds (ipc.hpp, with service.h, *)
(* cmif.h and hipc.h): what the dispatch holds is counted once, to lay the *)
(* message out, and gone through again to fill it, by pointers that only   *)
(* grow.  The two have to agree on every buffer.  Positions are bytes from *)
(* the start of the message, which is the start of the thread's TLS.       *)
(***************************************************************************)
EXTENDS Integers, Sequences, SequencesExt, FiniteSetsExt

CONSTANTS
  MaxBuffers,  \* bound: buffers of a dispatch (8 in the code)
  Sizes,       \* sizes of buffers
  DataSizes,   \* sizes of the data of a request
  MaxHandles,  \* bound: handles, and objects, of a dispatch (8)
  PointerSizes, \* sizes of the pointer buffer of a server
  Word         \* how many values a u32 has

ASSUME MessageAssumption ==
  /\ Sizes \subseteq Nat /\ DataSizes \subseteq Nat /\ PointerSizes \subseteq 0..(Word - 1)
  /\ MaxHandles \in Nat /\ MaxBuffers \in Nat /\ Word \in Nat \ {0}

\* The attributes of a buffer: its directions and how it is passed.
Attrs == [dir : {{"in"}, {"out"}, {"in", "out"}}, via : {"auto", "pointer", "fixed", "alias"}]

\* The bytes of an element of each part of a message.
Width == [p \in {"copy", "statics", "send", "recv", "exch", "words", "list"} |->
           CASE p \in {"copy", "words"} -> 4
             [] p \in {"statics", "list"} -> 8
             [] p \in {"send", "recv", "exch"} -> 12]

VARIABLES
  dispatch,  \* the parameters of the call
  req,       \* the CmifRequest: where its pointers are and server_pointer_size;
             \* with what has been passed by pointer so far, and whether a
             \* buffer has asked for more than there was
  next       \* the buffer to be processed next, 0 before the message is laid out

messageVars == <<dispatch, req, next>>

Dispatches ==
  [buffers : SeqOf([attr : Attrs, size : Sizes], MaxBuffers), data : DataSizes,
   handles : 0..MaxHandles, objects : 0..MaxHandles, domain : BOOLEAN, pid : BOOLEAN,
   pointerSize : PointerSizes]

MessageInit ==
  /\ dispatch \in Dispatches
  /\ req = [at |-> <<>>, left |-> dispatch.pointerSize, passed |-> 0, overdrawn |-> FALSE]
  /\ next = 0

-----------------------------------------------------------------------------
(* Counting: _serviceRequestFormatProcessBuffer and cmifMakeRequest.       *)

Number(attrs) ==
  Cardinality({i \in DOMAIN dispatch.buffers : dispatch.buffers[i].attr \in attrs})

Inward == {{"in"}, {"in", "out"}}
Outward == {{"out"}, {"in", "out"}}

InAuto == Number([dir : Inward, via : {"auto"}])
OutAuto == Number([dir : Outward, via : {"auto"}])
InPointers == Number([dir : Inward, via : {"pointer", "fixed"}])
OutPointers == Number([dir : Outward, via : {"pointer"}])
OutFixed == Number([dir : Outward, via : {"fixed"}])
Alias(dir) == Number([dir : {dir}, via : {"alias"}])

\* The sizes of output pointers go into a table behind the data.
TableLength == OutAuto + OutPointers

\* 16 bytes to align, the headers, the objects of a domain and the data, and
\* where the table is, from the start of the data words.
TableOffset ==
  LET size == 16 + (IF dispatch.domain THEN 16 + 4 * dispatch.objects ELSE 0) + 16 + dispatch.data
  IN  2 * ((size + 1) \div 2)

Count(part) ==
  CASE part = "copy"    -> dispatch.handles
    [] part = "statics" -> InAuto + InPointers
    [] part = "send"    -> InAuto + Alias({"in"})
    [] part = "recv"    -> OutAuto + Alias({"out"})
    [] part = "exch"    -> Alias({"in", "out"})
    [] part = "words"   -> (TableOffset + 2 * TableLength + 3) \div 4
    [] part = "list"    -> TableLength + OutFixed

-----------------------------------------------------------------------------
(* Layout: hipcMakeRequest, hipcCalcRequestLayout and cmifMakeRequest.     *)

\* The header, and a special one for a process id or handles.
Header == 8 + IF dispatch.pid \/ dispatch.handles > 0
              THEN 4 + IF dispatch.pid THEN 8 ELSE 0 ELSE 0

\* One part behind the other.
Starts ==
  LET size(p) == Count(p) * Width[p]
      statics == Header + size("copy")
      send    == statics + size("statics")
      recv    == send + size("send")
      exch    == recv + size("recv")
      words   == exch + size("exch")
  IN  [copy |-> Header, statics |-> statics, send |-> send, recv |-> recv,
       exch |-> exch, words |-> words, list |-> words + size("words")]

AlignedDataStart(words) == ((words + 15) \div 16) * 16

\* Where the objects go: behind the headers and the data.
ObjectsStart(words) ==
  AlignedDataStart(words) + (IF dispatch.domain THEN 16 ELSE 0) + 16 + dispatch.data

Layout == [p \in DOMAIN Starts \cup {"objects", "table"} |->
             CASE p = "objects" -> ObjectsStart(Starts["words"])
               [] p = "table"   -> Starts["words"] + TableOffset
               [] OTHER         -> Starts[p]]

\* The message is laid out and the objects and handles are written.
MakeRequest ==
  /\ next = 0
  /\ req' = [req EXCEPT !.at = [Layout EXCEPT
               !["objects"] = @ + IF dispatch.domain THEN 4 * dispatch.objects ELSE 0,
               !["copy"] = @ + 4 * dispatch.handles]]
  /\ next' = 1
  /\ UNCHANGED dispatch

-----------------------------------------------------------------------------
(* Filling: _serviceRequestProcessBuffer, one buffer after the other.      *)

Put(r, part) == [r EXCEPT !.at[part] = @ + Width[part]]

\* server_pointer_size -= size, on a u32.
Take(r, size) == [r EXCEPT !.left = (@ - size) % Word, !.passed = @ + size]

InPointer(r, size) == Put(Take(r, size), "statics")
OutFixedPointer(r, size) == Put(Take(r, size), "list")
OutPointer(r, size) == [OutFixedPointer(r, size) EXCEPT !.at["table"] = @ + 2]

\* Mutant: whatever room there is will do.
ByPointerAnyRoom(r, size) == IF r.left # 0 THEN size ELSE 0

\* An automatic buffer is passed as a pointer if the server has room for it,
\* and as a pointer of no bytes beside a real buffer if it has not.
ByPointer(r, size) == IF r.left # 0 /\ size <= r.left THEN size ELSE 0

In(r, b) ==
  CASE b.attr.via = "auto"  -> Put(InPointer(r, ByPointer(r, b.size)), "send")
    [] b.attr.via = "alias" -> Put(r, "send")
    [] OTHER                -> InPointer(r, b.size)

\* Mutant: a pointer of fixed size enters the table of sizes.
OutFixedInTable(r, b) ==
  CASE b.attr.via = "auto"  -> Put(OutPointer(r, ByPointer(r, b.size)), "recv")
    [] b.attr.via = "alias" -> Put(r, "recv")
    [] OTHER                -> OutPointer(r, b.size)

Out(r, b) ==
  CASE b.attr.via = "auto"    -> Put(OutPointer(r, ByPointer(r, b.size)), "recv")
    [] b.attr.via = "alias"   -> Put(r, "recv")
    [] b.attr.via = "pointer" -> OutPointer(r, b.size)
    [] b.attr.via = "fixed"   -> OutFixedPointer(r, b.size)

\* A buffer that has to be a pointer asks for more than is left.
Overdraws(r, b) == b.attr.via \in {"pointer", "fixed"} /\ Cardinality(b.attr.dir) * b.size > r.left

\* _serviceRequestProcessBuffer of one buffer.
Processed(r, b) ==
  LET now == [r EXCEPT !.overdrawn = @ \/ Overdraws(r, b)]
      in  == IF "in" \in b.attr.dir THEN In(now, b) ELSE now
  IN  IF b.attr = [dir |-> {"in", "out"}, via |-> "alias"] THEN Put(now, "exch")
      ELSE IF "out" \in b.attr.dir THEN Out(in, b) ELSE in

ProcessBuffer ==
  /\ next \in DOMAIN dispatch.buffers
  /\ req' = Processed(req, dispatch.buffers[next])
  /\ next' = next + 1
  /\ UNCHANGED dispatch

MessageNext == MakeRequest \/ ProcessBuffer
MessageSpec == MessageInit /\ [][MessageNext]_messageVars

-----------------------------------------------------------------------------
Filled == next = Len(dispatch.buffers) + 1

\* What is counted is what is written: when all buffers have been processed
\* every pointer of the request is at the end of its part, for all kinds of
\* buffers together; and the data, the objects and the table of sizes, which
\* share the data words, do not run into each other or out of them.
FilledAsCounted ==
  Filled =>
    /\ \A p \in DOMAIN Starts \ {"words"} : req.at[p] = Starts[p] + Count(p) * Width[p]
    /\ ObjectsStart(Starts["words"]) <= req.at["objects"]
    /\ req.at["objects"] <= Starts["words"] + TableOffset
    /\ req.at["table"] = Starts["words"] + TableOffset + 2 * TableLength
    /\ req.at["table"] <= Starts["list"]

\* What is passed by pointer fits the pointer buffer of the server, unless a
\* buffer that has to be a pointer asks for more than is left: from then on
\* server_pointer_size has wrapped around and limits nothing.
PointersFitUnlessOverdrawn == ~req.overdrawn => req.passed <= dispatch.pointerSize
=============================================================================

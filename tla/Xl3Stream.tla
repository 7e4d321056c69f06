------------------------------ MODULE Xl3Stream ------------------------------
(***************************************************************************)
(* The path of the data through the monitor (snotstream.c): data_read_cb   *)
(* cuts the bytes of a monitoring connection into packets, parse_xl3       *)
(* pushes a sample for every PMT bundle into the ring xl3_buf, and every   *)
(* half second xl3_watcher_cb copies the ring and upload_xl3 averages the  *)
(* samples of each tube into a document.                                   *)
(*                                                                         *)
(* A callback of the libevent loop is not interrupted, but its loops are   *)
(* unrolled here, one iteration a step: phase says which callback runs.    *)
(* The hardware is taken at its word: a packet counts no more bundles than *)
(* it holds, and no bundle names a tube outside the detector.  The three   *)
(* charges of a bundle are treated alike and are one number here.          *)
(***************************************************************************)
EXTENDS RingBuf

CONSTANTS
  Xl3Con,      \* the connections of type XL3
  OtherCon,    \* those of a type with packets but no parser (MTC, CAEN)
  SizelessCon, \* those whose pktsize is 0 (EV_BUILDER, ORCA, UNKNOWN)
  PktSize,     \* the bytes of a packet
  MaxRead,     \* the most bytes libevent reads at once
  MaxInput,    \* bound: the most bytes buffered for a type of pktsize 0
  MaxBundles,  \* the bundles a packet can hold
  N,           \* num_keys of xl3_buf
  NumPmts,     \* the tubes of the detector
  MaxCharge,   \* the largest unpacked charge
  SumWord      \* 2^32, the range of the sums

ASSUME SizesAssumption ==
  /\ PktSize \in Nat \ {0} /\ MaxRead \in Nat \ {0} /\ MaxInput \in Nat
  /\ MaxBundles \in Nat /\ NumPmts \in Nat \ {0}
ASSUME RingAssumption   == N \in Nat \ {0} /\ N + 1 <= MaxKeys
ASSUME ChargeAssumption == MaxCharge \in Nat /\ SumWord \in Nat /\ N * MaxCharge < SumWord

VARIABLES
  phase,   \* "loop", "read" (data_read_cb), "upload" (upload_xl3), "crashed"
  con,     \* the connection data_read_cb reads, or NULL
  input,   \* the bytes in the evbuffer of each connection
  todo,    \* the bundles of the packet that parse_xl3 has still to push
  xl3_buf, \* the ring
  tmpbuf,  \* the copy that is being uploaded, or NULL
  pmts,    \* upload_xl3's sum and count of each tube (zero when it is not running)
  doc,     \* the document handed to pouch in the last step, or NULL
  batch    \* history: what was accepted of each tube since the last document

vars == <<phase, con, input, todo, xl3_buf, tmpbuf, pmts, doc, batch>>

Con    == Xl3Con \cup OtherCon \cup SizelessCon
Pmt    == 0 .. NumPmts-1
Charge == 0 .. MaxCharge
Sample == [pmt : Pmt, charge : Charge]  \* pmt_upls: one pushed object

ASSUME ConAssumption  == SizelessCon \cap (Xl3Con \cup OtherCon) = {} /\ Xl3Con \cap OtherCon = {}
ASSUME NullAssumption ==
  NULL \notin Con \cup Sample /\ \A n \in 1 .. N+1 : NULL \notin RingbufOf(Sample, n)

Total == [sum : Nat, count : Nat]
Zero  == [p \in Pmt |-> [sum |-> 0, count |-> 0]]

Init ==
  /\ phase = "loop" /\ con = NULL
  /\ input = [c \in Con |-> 0] /\ todo = 0
  /\ xl3_buf = RingbufInit(N) /\ tmpbuf = NULL
  /\ pmts = Zero /\ doc = NULL /\ batch = Zero

-----------------------------------------------------------------------------
(* data_read_cb and parse_xl3. *)

\* libevent read n bytes; at the low watermark, pktsize, it calls data_read_cb.
\* For a pktsize of 0 the callback removes 0 bytes and returns.
Receive(c, n) ==
  /\ phase = "loop"
  /\ c \in SizelessCon => input[c] + n <= MaxInput
  /\ input' = [input EXCEPT ![c] = @ + n]
  /\ IF c \notin SizelessCon /\ input[c] + n >= PktSize
     THEN phase' = "read" /\ con' = c
     ELSE UNCHANGED <<phase, con>>
  /\ doc' = NULL
  /\ UNCHANGED <<todo, xl3_buf, tmpbuf, pmts, batch>>

\* The next packet is removed from the evbuffer; only XL3 packets have a
\* parser, which goes through the num_bundles of the packet's header.
TakePacket ==
  /\ phase = "read" /\ todo = 0 /\ input[con] >= PktSize
  /\ input' = [input EXCEPT ![con] = @ - PktSize]
  /\ IF con \in Xl3Con THEN todo' \in 0 .. MaxBundles ELSE UNCHANGED todo
  /\ UNCHANGED <<phase, con, xl3_buf, tmpbuf, pmts, doc, batch>>

\* Mutant: the charge is assigned, not added.
AddSampleLast(totals, s) ==
  [totals EXCEPT ![s.pmt] = [sum |-> s.charge, count |-> @.count + 1]]

\* A sample added to the sum and count of its tube.
AddSample(totals, s) ==
  [totals EXCEPT ![s.pmt] = [sum |-> (@.sum + s.charge) % SumWord, count |-> @.count + 1]]

\* An iteration of the loop in parse_xl3; what finds the ring full is lost.
PushBundle(s) ==
  /\ phase = "read" /\ todo > 0
  /\ todo' = todo - 1
  /\ xl3_buf' = RingbufPush(xl3_buf, s)
  /\ batch' = IF IsFull(xl3_buf) THEN batch
              ELSE [batch EXCEPT ![s.pmt] = [sum |-> @.sum + s.charge, count |-> @.count + 1]]
  /\ UNCHANGED <<phase, con, input, tmpbuf, pmts, doc>>

\* Mutant: one packet a callback.
EndReadEarly ==
  /\ phase = "read" /\ todo = 0
  /\ phase' = "loop" /\ con' = NULL
  /\ UNCHANGED <<input, todo, xl3_buf, tmpbuf, pmts, doc, batch>>

\* Less than a packet is left.
EndRead ==
  /\ phase = "read" /\ todo = 0 /\ input[con] < PktSize
  /\ phase' = "loop" /\ con' = NULL
  /\ UNCHANGED <<input, todo, xl3_buf, tmpbuf, pmts, doc, batch>>

\* The connection is closed, here or by its host: its evbuffer goes with it.
Close(c) ==
  /\ phase = "loop"
  /\ input' = [input EXCEPT ![c] = 0]
  /\ doc' = NULL
  /\ UNCHANGED <<phase, con, todo, xl3_buf, tmpbuf, pmts, batch>>

-----------------------------------------------------------------------------
(* xl3_watcher_cb and upload_xl3. *)

\* The timer fires and the ring is not empty.
Watch ==
  /\ phase = "loop" /\ ~IsEmpty(xl3_buf)
  /\ IF CopyOverruns(xl3_buf)
     THEN phase' = "crashed" /\ UNCHANGED <<xl3_buf, tmpbuf>>
     ELSE /\ phase' = "upload"
          /\ tmpbuf' = RingbufCopy(xl3_buf)
          /\ xl3_buf' = RingbufCopied(xl3_buf)
  /\ doc' = NULL
  /\ UNCHANGED <<con, input, todo, pmts, batch>>

\* An iteration of the loop in upload_xl3; a NULL key is dereferenced.
PopSample ==
  /\ phase = "upload" /\ ~IsEmpty(tmpbuf)
  /\ tmpbuf' = RingbufPop(tmpbuf)
  /\ IF PoppedKey(tmpbuf) = NULL
     THEN phase' = "crashed" /\ UNCHANGED pmts
     ELSE /\ pmts' = AddSample(pmts, PoppedKey(tmpbuf))
          /\ UNCHANGED phase
  /\ UNCHANGED <<con, input, todo, xl3_buf, doc, batch>>

\* The document has an entry for every tube.  A tube without samples counts
\* as one of 0; the entry's own pmt field is that of the zeroed array.
Document ==
  [p \in Pmt |-> [pmt |-> 0, sum |-> pmts[p].sum,
                  count |-> IF pmts[p].count = 0 THEN 1 ELSE pmts[p].count]]

\* Mutant: the array of sums is static.
UploadStatic ==
  /\ phase = "upload" /\ IsEmpty(tmpbuf)
  /\ doc' = Document
  /\ tmpbuf' = NULL /\ phase' = "loop"
  /\ batch' = Zero
  /\ UNCHANGED <<con, input, todo, xl3_buf, pmts>>

\* The rest of upload_xl3, whose array of sums is local to a call, and of
\* xl3_watcher_cb, which clears and frees the copy.
Upload ==
  /\ phase = "upload" /\ IsEmpty(tmpbuf)
  /\ doc' = Document
  /\ tmpbuf' = NULL /\ phase' = "loop"
  /\ pmts' = Zero /\ batch' = Zero
  /\ UNCHANGED <<con, input, todo, xl3_buf>>

\* A callback, once begun, goes on to its end.
ReadStep   == TakePacket \/ (\E s \in Sample : PushBundle(s)) \/ EndRead
UploadStep == PopSample \/ Upload

Next ==
  \/ \E c \in Con, n \in 1 .. MaxRead : Receive(c, n)
  \/ \E c \in Con : Close(c)
  \/ ReadStep \/ Watch \/ UploadStep

\* The loop runs every callback to its end, and the persistent timer of the
\* watcher comes up again and again between other callbacks.
Fairness == WF_vars(ReadStep) /\ WF_vars(UploadStep) /\ SF_vars(Watch)

Spec == Init /\ [][Next]_vars /\ Fairness

-----------------------------------------------------------------------------
(* Properties. *)

TypeOK ==
  /\ phase \in {"loop", "read", "upload", "crashed"}
  /\ con \in Con \cup {NULL} /\ (phase = "read" <=> con # NULL)
  /\ input \in [Con -> Nat]
  /\ todo \in 0 .. MaxBundles
  /\ xl3_buf \in RingbufOf(Sample, N)
  /\ pmts \in [Pmt -> Total] /\ batch \in [Pmt -> Total]
  /\ phase = "upload" <=> tmpbuf # NULL /\ phase # "crashed"

\* Between callbacks no whole packet waits in a buffer: data_read_cb leaves
\* none behind, for it would be called again only when more bytes arrive.
NoPacketWaits ==
  phase = "loop" => \A c \in Xl3Con \cup OtherCon : input[c] < PktSize

\* xl3_buf can be copied at any time: ringbuf_copy, which goes wrong for a
\* ring whose keys wrap around its end, never meets one here.
CopyIsSafe == ~CopyOverruns(xl3_buf)

\* The 32 bits of a sum are enough for a ring full of samples of one tube.
SumsHaveRoom ==
  phase = "upload" /\ ~IsEmpty(tmpbuf) /\ PoppedKey(tmpbuf) # NULL =>
    pmts[PoppedKey(tmpbuf).pmt].sum + PoppedKey(tmpbuf).charge < SumWord

\* The document has, for each tube, the sum (not reduced modulo 2^32) and
\* the number of exactly the samples accepted since the document before it:
\* none is lost between the ring, its copy and the array, and none is counted
\* twice, whatever arrived meanwhile.
DocumentIsBatch ==
  [][doc' # NULL =>
       \A p \in Pmt : /\ doc'[p].sum = batch[p].sum
                      /\ doc'[p].count = IF batch[p].count = 0 THEN 1 ELSE batch[p].count]_vars

\* The program can only crash on the copy of a ring that was full.
CrashOnlyAfterFull == [][phase' = "crashed" => tmpbuf # NULL /\ tmpbuf.write = N]_vars

\* Samples in the ring get uploaded, unless the program crashes.
SamplesAreUploaded == ~IsEmpty(xl3_buf) ~> doc # NULL \/ phase = "crashed"

\* When the ring is full "data has been lost" (snotstream.c:305-307), but the
\* watcher still "averages all of the similar values in the ring buffer and
\* then uploads the result" (README.md:56-57): it does not crash.
WatcherSurvives == phase # "crashed"
=============================================================================

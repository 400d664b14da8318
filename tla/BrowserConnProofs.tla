-------------------------- MODULE BrowserConnProofs --------------------------
(***************************************************************************)
(* Safety of BrowserConn for any scenarios and sizes.  IInv is inductive:  *)
(* one lemma per action, which says what the action leaves alone, so that  *)
(* the parts of IInv about that need no more, and proves the others.       *)
(***************************************************************************)
EXTENDS BrowserConn, FiniteSetTheorems, TLAPS

USE ConstantsAssumption
    DEF Quiet, Mode, FailLabels, Errors

-----------------------------------------------------------------------------
(* TypeOK, in parts.                                                       *)

\* The scenario, and the flags that are set.
ClientTyped ==
  /\ [mode |-> mode, actors |-> actors] \in Scenarios
  /\ client \in {"open", "join", "shutdown", "done"}
  /\ dial \in {"none", "failed", "open"}
FlagsTyped ==
  /\ registered \in BOOLEAN /\ cancelled \in BOOLEAN
  /\ uploadCancelled \in BOOLEAN /\ closed \in BOOLEAN
  /\ downloadDone \in BOOLEAN /\ bodyClosed \in BOOLEAN
EndTyped ==
  /\ err \in Errors /\ closeErr \in Errors
  /\ closing \in {"no", "setError", "cancel", "writer", "post", "reader",
                  "join", "done"}
  /\ monitor \in {"none", "watch", "cancel", "cancelPost", "stopped", "gone"}
BatchTyped == data \in 0..Max /\ waiting \subseteq {"writer", "uploader"}
RequestTyped ==
  /\ download \in {"none", "open", "EOF", "download", "canceled"}
  /\ buffered \in 0..MaxBuffered
PostTyped == post \in [Posts -> {"none", "open", "EOF", "failed", "canceled"}]
UploaderTyped ==
  uploader \in {"none", "top", "drain", "waitData", "busy", "slot", "start",
                "join", "gone"} \cup (FailLabels \cup {"setError"})
PacketTyped ==
  /\ seq \in 0..MaxBytes
  /\ payload \in (0..MaxBytes) \X (0..MaxBytes)
  /\ piece \in [Posts -> (0..MaxBytes) \X (0..MaxBytes)]
WaiterTyped ==
  waiter \in [Posts -> {"none", "wait", "succeeded", "erred", "gone",
                        "setError"} \cup FailLabels]
SlotsTyped == InFlight <= Limit
WriteTyped == wr \in CallType({"context", "lock", "wait"})
ReadTyped == rd \in CallType({"read", "close", "join"})

LEMMA TypeParts ==
  TypeOK <=> /\ ClientTyped /\ FlagsTyped /\ EndTyped /\ BatchTyped /\ RequestTyped
             /\ PostTyped /\ UploaderTyped /\ PacketTyped /\ WaiterTyped
             /\ SlotsTyped /\ WriteTyped /\ ReadTyped
  BY DEF TypeOK, ClientTyped, FlagsTyped, EndTyped, BatchTyped, RequestTyped,
         PostTyped, UploaderTyped, PacketTyped, WaiterTyped, SlotsTyped,
         WriteTyped, ReadTyped

Parts ==
  /\ ClientTyped /\ FlagsTyped /\ EndTyped /\ BatchTyped /\ RequestTyped
  /\ PostTyped /\ UploaderTyped /\ PacketTyped /\ WaiterTyped /\ SlotsTyped
  /\ WriteTyped /\ ReadTyped
  /\ Birth /\ Membership /\ Flight /\ Numbering /\ NoGap /\ Ending /\ Cancels
  /\ Reasons

LEMMA IInvParts == IInv <=> Parts
  BY TypeParts DEF IInv, Parts

\* A part stays true when what it is about stays the same.
LEMMA ClientTypedSame ==
  ASSUME ClientTyped, UNCHANGED <<mode, actors, client, dial>>
  PROVE  ClientTyped'
  BY DEF ClientTyped
LEMMA FlagsTypedSame ==
  ASSUME FlagsTyped, UNCHANGED <<registered, cancelled, uploadCancelled,
         closed, downloadDone, bodyClosed>>
  PROVE  FlagsTyped'
  BY DEF FlagsTyped
LEMMA EndTypedSame ==
  ASSUME EndTyped, UNCHANGED <<err, closeErr, closing, monitor>>
  PROVE  EndTyped'
  BY DEF EndTyped
LEMMA BatchTypedSame ==
  ASSUME BatchTyped, UNCHANGED <<data, waiting>>
  PROVE  BatchTyped'
  BY DEF BatchTyped
LEMMA RequestTypedSame ==
  ASSUME RequestTyped, UNCHANGED <<download, buffered>>
  PROVE  RequestTyped'
  BY DEF RequestTyped
LEMMA PostTypedSame ==
  ASSUME PostTyped, UNCHANGED <<post>>
  PROVE  PostTyped'
  BY DEF PostTyped
LEMMA UploaderTypedSame ==
  ASSUME UploaderTyped, UNCHANGED <<uploader>>
  PROVE  UploaderTyped'
  BY DEF UploaderTyped
LEMMA PacketTypedSame ==
  ASSUME PacketTyped, UNCHANGED <<seq, payload, piece>>
  PROVE  PacketTyped'
  BY DEF PacketTyped
LEMMA WaiterTypedSame ==
  ASSUME WaiterTyped, UNCHANGED <<waiter>>
  PROVE  WaiterTyped'
  BY DEF WaiterTyped
LEMMA SlotsTypedSame ==
  ASSUME SlotsTyped, UNCHANGED <<waiter>>
  PROVE  SlotsTyped'
  BY DEF SlotsTyped, InFlight
LEMMA WriteTypedSame ==
  ASSUME WriteTyped, UNCHANGED <<wr>>
  PROVE  WriteTyped'
  BY DEF WriteTyped, CallType
LEMMA ReadTypedSame ==
  ASSUME ReadTyped, UNCHANGED <<rd>>
  PROVE  ReadTyped'
  BY DEF ReadTyped, CallType
LEMMA BirthSame ==
  ASSUME Birth, UNCHANGED <<mode, dial, monitor, uploader, download, post,
         registered, cancelled, uploadCancelled, closed, closing, err, wr, rd,
         seq, payload>>
  PROVE  Birth'
  BY DEF Birth
LEMMA MembershipSame ==
  ASSUME Membership, UNCHANGED <<registered, closing, dial, client>>
  PROVE  Membership'
  BY DEF Membership
LEMMA FlightSame ==
  ASSUME Flight, UNCHANGED <<mode, post, waiter, uploader, seq, bodyClosed>>
  PROVE  Flight'
  BY DEF Flight, PostDone, InFlight
LEMMA NumberingSame ==
  ASSUME Numbering, UNCHANGED <<mode, payload, data, wr, seq, uploader, post,
         piece>>
  PROVE  Numbering'
  BY DEF Numbering, Reaches, Bytes
LEMMA NoGapSame ==
  ASSUME NoGap, UNCHANGED <<mode, post, piece>>
  PROVE  NoGap'
  BY DEF NoGap
LEMMA EndingSame ==
  ASSUME Ending, UNCHANGED <<mode, downloadDone, download, uploader, closing,
         waiter>>
  PROVE  Ending'
  BY DEF Ending, UploadDone
LEMMA CancelsSame ==
  ASSUME Cancels, UNCHANGED <<mode, closing, cancelled, monitor, closed,
         uploadCancelled, download, post, waiter, uploader, err>>
  PROVE  Cancels'
  BY DEF Cancels, Failing
LEMMA ReasonsSame ==
  ASSUME Reasons, UNCHANGED <<mode, closeErr, wr, rd, err, cancelled, client,
         download, post, bodyClosed>>
  PROVE  Reasons'
  BY DEF Reasons, Ended, Real, Piped, CtxDone

\* Nor do these parts ask more of a request than whether it was made.
LEMMA NoGapMade ==
  ASSUME NoGap, \A i \in Posts : post'[i] = "none" <=> post[i] = "none",
         UNCHANGED <<mode, piece>>
  PROVE  NoGap'
  BY DEF NoGap, Posts
LEMMA NumberingMade ==
  ASSUME Numbering, PacketTyped,
         \A i \in Posts : post'[i] = "none" <=> post[i] = "none",
         UNCHANGED <<mode, payload, data, wr, seq, uploader, piece>>
  PROVE  Numbering'
<1>1. /\ 0 < seq => seq - 1 \in Posts
      /\ 1 < seq => seq - 2 \in Posts
      /\ seq \in Nat
  BY DEF PacketTyped, Posts
<1>. QED BY <1>1 DEF Numbering, Reaches, Bytes

-----------------------------------------------------------------------------
(* Packets in flight.                                                      *)

Flying == {i \in Posts : waiter[i] \notin {"none", "gone"}}

LEMMA FlyingFinite ==
  /\ IsFiniteSet(Flying) /\ IsFiniteSet(Flying')
  /\ InFlight \in Nat /\ InFlight' \in Nat
  /\ InFlight = Cardinality(Flying) /\ InFlight' = Cardinality(Flying')
<1>1. IsFiniteSet(Posts)
  BY FS_Interval DEF Posts
<1>2. Flying \subseteq Posts /\ Flying' \subseteq Posts
  BY DEF Flying
<1>3. InFlight = Cardinality(Flying) /\ InFlight' = Cardinality(Flying')
  BY DEF InFlight, Flying
<1>. QED BY <1>1, <1>2, <1>3, FS_Subset, FS_CardinalityType

\* A step in which no goroutine begins to wait puts no packet in flight.
LEMMA NoMoreFlying ==
  ASSUME \A i \in Posts : waiter[i] \in {"none", "gone"} =>
                          waiter'[i] \in {"none", "gone"}
  PROVE  InFlight' <= InFlight
<1>1. Flying' \subseteq Flying
  BY DEF Flying
<1>. QED BY <1>1, FlyingFinite, FS_Subset, FS_CardinalityType

\* A step in which one does puts at most one in flight.
LEMMA OneMoreFlying ==
  ASSUME NEW k \in Posts, \A i \in Posts \ {k} : waiter'[i] = waiter[i]
  PROVE  InFlight' <= InFlight + 1
<1>1. Flying' \subseteq Flying \cup {k}
  BY DEF Flying
<1>2. /\ IsFiniteSet(Flying \cup {k})
      /\ Cardinality(Flying \cup {k}) <= InFlight + 1
  <2>1. IsFiniteSet(Flying) /\ Cardinality(Flying) = InFlight /\ InFlight \in Nat
    BY FlyingFinite
  <2>2. /\ IsFiniteSet(Flying \cup {k})
        /\ Cardinality(Flying \cup {k}) =
              IF k \in Flying THEN Cardinality(Flying) ELSE Cardinality(Flying) + 1
    BY <2>1, FS_AddElement
  <2>. QED BY <2>1, <2>2
<1>3. /\ Cardinality(Flying') <= Cardinality(Flying \cup {k})
      /\ Cardinality(Flying') \in Nat /\ Cardinality(Flying \cup {k}) \in Nat
  BY <1>1, <1>2, FlyingFinite, FS_Subset, FS_CardinalityType
<1>. QED BY <1>2, <1>3, FlyingFinite

\* None is in flight when every goroutine is gone or was never there.
LEMMA NoneFlying ==
  InFlight = 0 <=> \A i \in Posts : waiter[i] \in {"none", "gone"}
<1>1. InFlight = 0 <=> Flying = {}
  BY FlyingFinite, FS_EmptySet
<1>. QED BY <1>1 DEF Flying

-----------------------------------------------------------------------------
(* The actions.                                                            *)

\* A connection is made, or its dial fails.
LEMMA DialContextKeeps ==
  ASSUME Parts, DialContext
  PROVE  Parts'
<1>1. UNCHANGED <<mode, actors, client, err, cancelled, uploadCancelled,
                  closing,
                  data, closed, closeErr, waiting, downloadDone, buffered,
                  bodyClosed, seq, payload, piece, wr, rd>>
  BY DEF DialContext, endVars, batchVars
<1>2. /\ dial = "none" /\ ~registered /\ ~cancelled /\ ~uploadCancelled /\ ~closed
      /\ closing = "no" /\ monitor = "none" /\ err = "none"
      /\ uploader = "none" /\ seq = 0 /\ payload = <<0, 0>> /\ download = "none"
      /\ \A i \in Posts : post[i] = "none" /\ waiter[i] = "none"
      /\ wr = Quiet /\ rd = Quiet
  BY DEF DialContext, Parts, Birth, Flight
<1>3. CASE dial' = "failed"
  <2>1. UNCHANGED <<registered, monitor, download, post, uploader, waiter>>
    BY <1>3 DEF DialContext
  <2>2. ClientTyped'
    BY <1>1, <1>3 DEF Parts, ClientTyped
  <2>3. Birth' /\ Membership'
    BY <1>1, <1>2, <1>3, <2>1 DEF Parts, Birth, Membership
  <2>. QED BY <1>1, <2>1, <2>2, <2>3, FlagsTypedSame, EndTypedSame,
              BatchTypedSame, RequestTypedSame, PostTypedSame, UploaderTypedSame,
              PacketTypedSame, WaiterTypedSame, SlotsTypedSame, WriteTypedSame,
              ReadTypedSame, FlightSame, NumberingSame, NoGapSame, EndingSame,
              CancelsSame, ReasonsSame DEF Parts
<1>4. CASE dial' = "open"
  <2>1. /\ client = "open" /\ registered' = TRUE /\ monitor' = "watch"
        /\ download' = "open"
        /\ uploader' = IF mode = "packet-up" THEN "top" ELSE "drain"
    BY <1>4 DEF DialContext
  <2>2. 0 \in Posts
    BY DEF Posts
  <2>3. /\ PostTyped' /\ WaiterTyped'
        /\ \A i \in Posts :
              /\ post'[i] = IF mode = "stream-up" /\ i = 0 THEN "open" ELSE "none"
              /\ waiter'[i] = IF mode = "stream-up" /\ i = 0 THEN "wait" ELSE "none"
    <3>1. CASE mode = "stream-up"
      BY <1>2, <1>4, <2>2, <3>1 DEF DialContext, Parts, PostTyped, WaiterTyped
    <3>2. CASE mode # "stream-up"
      BY <1>2, <1>4, <3>2 DEF DialContext, Parts, PostTyped, WaiterTyped
    <3>. QED BY <3>1, <3>2
  <2>4. SlotsTyped'
    <3>1. InFlight = 0 /\ InFlight' \in Nat /\ InFlight' <= InFlight + 1
      BY <1>2, <2>2, <2>3, NoneFlying, OneMoreFlying, FlyingFinite
    <3>. QED BY <3>1 DEF SlotsTyped
  <2>5. ClientTyped' /\ FlagsTyped' /\ EndTyped' /\ RequestTyped' /\ UploaderTyped'
    BY <1>1, <1>4, <2>1
    DEF Parts, ClientTyped, FlagsTyped, EndTyped, RequestTyped, UploaderTyped
  <2>6. Birth' /\ Membership'
    BY <1>1, <1>2, <1>4, <2>1, <2>2, <2>3 DEF Parts, Birth, Membership
  <2>7. Flight'
    BY <1>1, <1>2, <2>1, <2>2, <2>3 DEF Parts, Flight, PostDone
  <2>8. Numbering'
    BY <1>1, <1>2, <2>1, <2>3 DEF Parts, Numbering, Reaches, Bytes
  <2>9. NoGap' /\ Ending' /\ Cancels'
    BY <1>1, <1>2, <2>1, <2>2, <2>3 DEF Parts, NoGap, Ending, Cancels,
        Failing
  <2>10. Reasons'
    BY <1>1, <1>2, <2>1, <2>2 DEF Parts, Reasons, Ended, Real, Piped, CtxDone
  <2>. QED BY <1>1, <2>3, <2>4, <2>5, <2>6, <2>7, <2>8, <2>9, <2>10,
              BatchTypedSame,
              PacketTypedSame, WriteTypedSame, ReadTypedSame DEF Parts
<1>. QED BY <1>3, <1>4 DEF DialContext

\* Close of the client takes the connection, if it is there.
LEMMA CloseClientKeeps ==
  ASSUME Parts, CloseClient
  PROVE  Parts'
<1>1. UNCHANGED <<mode, actors, dial, registered, err, cancelled,
                  uploadCancelled, monitor, data, closed, closeErr, waiting,
                  download, downloadDone, buffered, post, bodyClosed, uploader,
                  seq, payload, piece, waiter, wr, rd>>
  BY DEF CloseClient, ClientOnly, BeginClose, clientVars, endVars, batchVars,
         requestVars, uploadVars
<1>2. ClientTyped'
  BY <1>1 DEF Parts, CloseClient, BeginClose, ClientTyped
<1>3. EndTyped'
  BY <1>1 DEF Parts, CloseClient, BeginClose, EndTyped
<1>4. Birth'
  BY <1>1 DEF Parts, CloseClient, BeginClose, Birth
<1>5. Membership'
  BY <1>1 DEF Parts, CloseClient, BeginClose, Membership
<1>6. Ending'
  BY <1>1 DEF Parts, CloseClient, BeginClose, Ending, UploadDone
<1>7. Cancels'
  BY <1>1 DEF Parts, CloseClient, BeginClose, Cancels, Failing
<1>8. Reasons'
  BY <1>1 DEF Parts, CloseClient, BeginClose, Reasons, Ended, Real, Piped,
              CtxDone
<1>. QED BY <1>1, <1>2, <1>3, <1>4, <1>5, <1>6, <1>7, <1>8, FlagsTypedSame,
            BatchTypedSame, RequestTypedSame, PostTypedSame, UploaderTypedSame,
            PacketTypedSame, WaiterTypedSame, SlotsTypedSame, WriteTypedSame,
            ReadTypedSame, FlightSame, NumberingSame, NoGapSame DEF Parts

\* The engine is destroyed after the connection is closed.
LEMMA ShutdownKeeps ==
  ASSUME Parts, Shutdown
  PROVE  Parts'
<1>1. UNCHANGED <<mode, actors, dial, registered, err, cancelled,
                  uploadCancelled, closing, monitor, data, closed, closeErr,
                  waiting, download, downloadDone, buffered, post, bodyClosed,
                  uploader, seq, payload, piece, waiter, wr, rd>>
  BY DEF Shutdown, ClientOnly, clientVars, endVars, batchVars, requestVars,
         uploadVars
<1>2. ClientTyped'
  BY <1>1 DEF Parts, Shutdown, ClientTyped
<1>3. Membership'
  BY <1>1 DEF Parts, Shutdown, Membership
<1>4. Reasons'
  BY <1>1 DEF Parts, Shutdown, Reasons, Ended, Real, Piped, CtxDone
<1>. QED BY <1>1, <1>2, <1>3, <1>4, FlagsTypedSame, EndTypedSame,
            BatchTypedSame, RequestTypedSame, PostTypedSame, UploaderTypedSame,
            PacketTypedSame, WaiterTypedSame, SlotsTypedSame, WriteTypedSame,
            ReadTypedSame, BirthSame, FlightSame, NumberingSame, NoGapSame,
            EndingSame, CancelsSame DEF Parts

\* A connection is closed by its owner.
LEMMA CloseKeeps ==
  ASSUME Parts, Close
  PROVE  Parts'
<1>1. UNCHANGED <<mode, actors, client, dial, registered, err, cancelled,
                  uploadCancelled, monitor, data, closed, closeErr, waiting,
                  download, downloadDone, buffered, post, bodyClosed, uploader,
                  seq, payload, piece, waiter, wr, rd>>
  BY DEF Close, ClientOnly, BeginClose, clientVars, endVars, batchVars,
         requestVars, uploadVars
<1>2. EndTyped'
  BY <1>1 DEF Parts, Close, BeginClose, EndTyped
<1>3. Birth'
  BY <1>1 DEF Parts, Close, BeginClose, Birth
<1>4. Membership'
  BY <1>1 DEF Parts, Close, BeginClose, Membership
<1>5. Ending'
  BY <1>1 DEF Parts, Close, BeginClose, Ending, UploadDone
<1>6. Cancels'
  BY <1>1 DEF Parts, Close, BeginClose, Cancels, Failing
<1>. QED BY <1>1, <1>2, <1>3, <1>4, <1>5, <1>6, ClientTypedSame, FlagsTypedSame,
            BatchTypedSame, RequestTypedSame, PostTypedSame, UploaderTypedSame,
            PacketTypedSame, WaiterTypedSame, SlotsTypedSame, WriteTypedSame,
            ReadTypedSame, FlightSame, NumberingSame, NoGapSame, ReasonsSame
            DEF Parts

\* The body of closeOnce publishes its error,
LEMMA CloseSetErrorKeeps ==
  ASSUME Parts, CloseSetError
  PROVE  Parts'
<1>1. UNCHANGED <<mode, actors, client, dial, registered, cancelled,
                  uploadCancelled, monitor, data, closed, closeErr, waiting,
                  download, downloadDone, buffered, post, bodyClosed, uploader,
                  seq, payload, piece, waiter, wr, rd>>
  BY DEF CloseSetError, CloseOnly, setError, First, clientVars, endVars,
         batchVars, requestVars, uploadVars
<1>2. EndTyped'
  BY <1>1 DEF Parts, CloseSetError, setError, First, EndTyped
<1>3. Birth'
  BY <1>1 DEF Parts, CloseSetError, setError, First, Birth
<1>4. Membership'
  BY <1>1 DEF Parts, CloseSetError, setError, First, Membership
<1>5. Ending'
  BY <1>1 DEF Parts, CloseSetError, setError, First, Ending, UploadDone
<1>6. Cancels'
  BY <1>1 DEF Parts, CloseSetError, setError, First, Cancels, Failing
<1>7. Reasons'
  <2>1. Real(err')
    BY DEF Parts, CloseSetError, setError, First, Reasons, Real
  <2>2. err # "none" => err' # "none"
    BY DEF CloseSetError, setError, First
  <2>. QED BY <1>1, <2>1, <2>2
           DEF Parts, CloseSetError, setError, First, Reasons, Ended, Real, Piped,
               CtxDone
<1>. QED BY <1>1, <1>2, <1>3, <1>4, <1>5, <1>6, <1>7, ClientTypedSame,
            FlagsTypedSame, BatchTypedSame, RequestTypedSame, PostTypedSame,
            UploaderTypedSame, PacketTypedSame, WaiterTypedSame, SlotsTypedSame,
            WriteTypedSame, ReadTypedSame, FlightSame, NumberingSame, NoGapSame
            DEF Parts

\* cancels the contexts,
LEMMA CloseCancelKeeps ==
  ASSUME Parts, CloseCancel
  PROVE  Parts'
<1>1. UNCHANGED <<mode, actors, client, dial, registered, err, monitor, data,
                  closed, closeErr, waiting, download, downloadDone, buffered,
                  post, bodyClosed, uploader, seq, payload, piece, waiter, wr,
                  rd>>
  BY DEF CloseCancel, CloseOnly, clientVars, endVars, batchVars, requestVars,
         uploadVars
<1>2. FlagsTyped'
  BY <1>1 DEF Parts, CloseCancel, FlagsTyped
<1>3. EndTyped'
  BY <1>1 DEF Parts, CloseCancel, EndTyped
<1>4. Birth'
  BY <1>1 DEF Parts, CloseCancel, Birth
<1>5. Membership'
  BY <1>1 DEF Parts, CloseCancel, Membership
<1>6. Ending'
  BY <1>1 DEF Parts, CloseCancel, Ending, UploadDone
<1>7. Cancels'
  BY <1>1 DEF Parts, CloseCancel, Cancels, Failing
<1>8. Reasons'
  BY <1>1 DEF Parts, CloseCancel, Reasons, Ended, Real, Piped, CtxDone
<1>. QED BY <1>1, <1>2, <1>3, <1>4, <1>5, <1>6, <1>7, <1>8, ClientTypedSame,
            BatchTypedSame, RequestTypedSame, PostTypedSame, UploaderTypedSame,
            PacketTypedSame, WaiterTypedSame, SlotsTypedSame, WriteTypedSame,
            ReadTypedSame, FlightSame, NumberingSame, NoGapSame DEF Parts

\* closes the batch,
LEMMA CloseWriterKeeps ==
  ASSUME Parts, CloseWriter
  PROVE  Parts'
<1>1. UNCHANGED <<mode, actors, client, dial, registered, err, cancelled,
                  uploadCancelled, monitor, data, download, downloadDone,
                  buffered, post, bodyClosed, uploader, seq, payload, piece,
                  waiter, wr, rd>>
  BY DEF CloseWriter, CloseOnly, closeWithError, clientVars, endVars, batchVars,
         requestVars, uploadVars
<1>2. FlagsTyped'
  BY <1>1 DEF Parts, CloseWriter, closeWithError, batchVars, FlagsTyped
<1>3. EndTyped'
  BY <1>1 DEF Parts, CloseWriter, closeWithError, batchVars, EndTyped
<1>4. BatchTyped'
  BY <1>1 DEF Parts, CloseWriter, closeWithError, batchVars, BatchTyped
<1>5. Birth'
  BY <1>1 DEF Parts, CloseWriter, closeWithError, batchVars, Birth
<1>6. Membership'
  BY <1>1 DEF Parts, CloseWriter, closeWithError, batchVars, Membership
<1>7. Ending'
  BY <1>1 DEF Parts, CloseWriter, closeWithError, batchVars, Ending, UploadDone
<1>8. Cancels'
  BY <1>1 DEF Parts, CloseWriter, closeWithError, batchVars, Cancels, Failing
<1>9. Reasons'
  BY <1>1 DEF Parts, CloseWriter, closeWithError, batchVars, Reasons, Ended,
              Real, Piped, CtxDone, Cancels
<1>. QED BY <1>1, <1>2, <1>3, <1>4, <1>5, <1>6, <1>7, <1>8, <1>9,
            ClientTypedSame, RequestTypedSame, PostTypedSame, UploaderTypedSame,
            PacketTypedSame, WaiterTypedSame, SlotsTypedSame, WriteTypedSame,
            ReadTypedSame, FlightSame, NumberingSame, NoGapSame DEF Parts

\* cancels the post of a stream,
LEMMA ClosePostKeeps ==
  ASSUME Parts, ClosePost
  PROVE  Parts'
<1>1. UNCHANGED <<mode, actors, client, dial, registered, err, cancelled,
                  uploadCancelled, monitor, data, closed, closeErr, waiting,
                  download, downloadDone, buffered, bodyClosed, uploader, seq,
                  payload, piece, waiter, wr, rd>>
  BY DEF ClosePost, CloseOnly, Cancelled, clientVars, endVars, batchVars,
         requestVars, uploadVars
<1>2. EndTyped'
  BY <1>1 DEF Parts, ClosePost, Cancelled, EndTyped
<1>3. PostTyped'
  BY <1>1 DEF Parts, ClosePost, Cancelled, PostTyped
<1>4. Birth'
  BY <1>1 DEF Parts, ClosePost, Cancelled, Birth
<1>5. Membership'
  BY <1>1 DEF Parts, ClosePost, Cancelled, Membership
<1>6. Flight'
  BY <1>1 DEF Parts, ClosePost, Cancelled, Flight, PostDone, InFlight
<1>7. Numbering'
  BY <1>1 DEF Parts, ClosePost, Cancelled, Numbering, Reaches, Bytes
<1>8. NoGap'
  BY <1>1 DEF Parts, ClosePost, Cancelled, NoGap
<1>9. Ending'
  BY <1>1 DEF Parts, ClosePost, Cancelled, Ending, UploadDone
<1>10. Cancels'
  BY <1>1 DEF Parts, ClosePost, Cancelled, Cancels, Failing
<1>11. Reasons'
  BY <1>1 DEF Parts, ClosePost, Cancelled, Reasons, Ended, Real, Piped, CtxDone
<1>. QED BY <1>1, <1>2, <1>3, <1>4, <1>5, <1>6, <1>7, <1>8, <1>9, <1>10, <1>11,
            ClientTypedSame, FlagsTypedSame, BatchTypedSame, RequestTypedSame,
            UploaderTypedSame, PacketTypedSame, WaiterTypedSame, SlotsTypedSame,
            WriteTypedSame, ReadTypedSame DEF Parts

\* cancels the download,
LEMMA CloseReaderKeeps ==
  ASSUME Parts, CloseReader
  PROVE  Parts'
<1>1. UNCHANGED <<mode, actors, client, dial, registered, err, cancelled,
                  uploadCancelled, monitor, data, closed, closeErr, waiting,
                  downloadDone, buffered, post, bodyClosed, uploader, seq,
                  payload, piece, waiter, wr, rd>>
  BY DEF CloseReader, CloseOnly, Cancelled, clientVars, endVars, batchVars,
         requestVars, uploadVars
<1>2. EndTyped'
  BY <1>1 DEF Parts, CloseReader, Cancelled, EndTyped
<1>3. RequestTyped'
  BY <1>1 DEF Parts, CloseReader, Cancelled, RequestTyped
<1>4. Birth'
  BY <1>1 DEF Parts, CloseReader, Cancelled, Birth
<1>5. Membership'
  BY <1>1 DEF Parts, CloseReader, Cancelled, Membership
<1>6. Ending'
  BY <1>1 DEF Parts, CloseReader, Cancelled, Ending, UploadDone
<1>7. Cancels'
  BY <1>1 DEF Parts, CloseReader, Cancelled, Cancels, Failing
<1>8. Reasons'
  BY <1>1 DEF Parts, CloseReader, Cancelled, Reasons, Ended, Real, Piped,
              CtxDone
<1>. QED BY <1>1, <1>2, <1>3, <1>4, <1>5, <1>6, <1>7, <1>8, ClientTypedSame,
            FlagsTypedSame, BatchTypedSame, PostTypedSame, UploaderTypedSame,
            PacketTypedSame, WaiterTypedSame, SlotsTypedSame, WriteTypedSame,
            ReadTypedSame, FlightSame, NumberingSame, NoGapSame DEF Parts

\* and takes the connection from the client when all has returned.
LEMMA RemoveKeeps ==
  ASSUME Parts, Remove
  PROVE  Parts'
<1>1. UNCHANGED <<mode, actors, client, dial, err, cancelled, uploadCancelled,
                  monitor, data, closed, closeErr, waiting, download,
                  downloadDone, buffered, post, bodyClosed, uploader, seq,
                  payload, piece, waiter, wr, rd>>
  BY DEF Remove, CloseOnly, Removed, clientVars, endVars, batchVars,
         requestVars, uploadVars
<1>2. FlagsTyped'
  BY <1>1 DEF Parts, Remove, Removed, FlagsTyped
<1>3. EndTyped'
  BY <1>1 DEF Parts, Remove, Removed, EndTyped
<1>4. Birth'
  BY <1>1 DEF Parts, Remove, Removed, Birth
<1>5. Membership'
  BY <1>1 DEF Parts, Remove, Removed, Membership
<1>6. Ending'
  BY <1>1 DEF Parts, Remove, Removed, Ending, UploadDone
<1>7. Cancels'
  BY <1>1 DEF Parts, Remove, Removed, Cancels, Failing
<1>. QED BY <1>1, <1>2, <1>3, <1>4, <1>5, <1>6, <1>7, ClientTypedSame,
            BatchTypedSame, RequestTypedSame, PostTypedSame, UploaderTypedSame,
            PacketTypedSame, WaiterTypedSame, SlotsTypedSame, WriteTypedSame,
            ReadTypedSame, FlightSame, NumberingSame, NoGapSame, ReasonsSame
            DEF Parts

\* A context is done: the monitor closes the connection.
LEMMA MonitorCancelKeeps ==
  ASSUME Parts, MonitorCancel
  PROVE  Parts'
<1>1. UNCHANGED <<mode, actors, client, dial, registered, cancelled,
                  uploadCancelled, data, closed, closeErr, waiting, download,
                  downloadDone, buffered, post, bodyClosed, uploader, seq,
                  payload, piece, waiter, wr, rd>>
  BY DEF MonitorCancel, MonitorOnly, setError, First, BeginClose, clientVars,
         endVars, batchVars, requestVars, uploadVars
<1>2. EndTyped'
  BY <1>1 DEF Parts, MonitorCancel, setError, First, BeginClose, EndTyped
<1>3. Birth'
  BY <1>1 DEF Parts, MonitorCancel, setError, First, BeginClose, Birth
<1>4. Membership'
  BY <1>1 DEF Parts, MonitorCancel, setError, First, BeginClose, Membership
<1>5. Ending'
  BY <1>1 DEF Parts, MonitorCancel, setError, First, BeginClose, Ending,
              UploadDone
<1>6. Cancels'
  BY <1>1 DEF Parts, MonitorCancel, setError, First, BeginClose, Cancels,
              Failing
<1>7. Reasons'
  BY <1>1 DEF Parts, MonitorCancel, setError, First, BeginClose, Reasons, Ended,
              Real, Piped, CtxDone
<1>. QED BY <1>1, <1>2, <1>3, <1>4, <1>5, <1>6, <1>7, ClientTypedSame,
            FlagsTypedSame, BatchTypedSame, RequestTypedSame, PostTypedSame,
            UploaderTypedSame, PacketTypedSame, WaiterTypedSame, SlotsTypedSame,
            WriteTypedSame, ReadTypedSame, FlightSame, NumberingSame, NoGapSame
            DEF Parts

\* The download is done: the monitor tells the writers why,
LEMMA StopCloseKeeps ==
  ASSUME Parts, StopClose
  PROVE  Parts'
<1>1. UNCHANGED <<mode, actors, client, dial, registered, err, cancelled,
                  uploadCancelled, closing, data, download, downloadDone,
                  buffered, post, bodyClosed, uploader, seq, payload, piece,
                  waiter, wr, rd>>
  BY DEF StopClose, MonitorOnly, closeWithError, Reason, clientVars, endVars,
         batchVars, requestVars, uploadVars
<1>2. FlagsTyped'
  BY <1>1 DEF Parts, StopClose, closeWithError, Reason, batchVars, FlagsTyped
<1>3. EndTyped'
  BY <1>1 DEF Parts, StopClose, closeWithError, Reason, batchVars, EndTyped,
              Ending, RequestTyped, Errors, FlagsTyped
<1>4. BatchTyped'
  BY <1>1 DEF Parts, StopClose, closeWithError, Reason, batchVars, BatchTyped
<1>5. Birth'
  BY <1>1 DEF Parts, StopClose, closeWithError, Reason, batchVars, Birth
<1>6. Cancels'
  BY <1>1 DEF Parts, StopClose, closeWithError, Reason, batchVars, Cancels,
              Failing
<1>7. Reasons'
  BY <1>1 DEF Parts, StopClose, closeWithError, Reason, batchVars, Reasons,
              Ended, Real, Piped, CtxDone, Cancels, Ending, RequestTyped
<1>. QED BY <1>1, <1>2, <1>3, <1>4, <1>5, <1>6, <1>7, ClientTypedSame,
            RequestTypedSame, PostTypedSame, UploaderTypedSame, PacketTypedSame,
            WaiterTypedSame, SlotsTypedSame, WriteTypedSame, ReadTypedSame,
            MembershipSame, FlightSame, NumberingSame, NoGapSame, EndingSame
            DEF Parts

\* cancels the upload,
LEMMA StopCancelKeeps ==
  ASSUME Parts, StopCancel
  PROVE  Parts'
<1>1. UNCHANGED <<mode, actors, client, dial, registered, err, cancelled,
                  closing, data, closed, closeErr, waiting, download,
                  downloadDone, buffered, post, bodyClosed, uploader, seq,
                  payload, piece, waiter, wr, rd>>
  BY DEF StopCancel, MonitorOnly, clientVars, endVars, batchVars, requestVars,
         uploadVars
<1>2. FlagsTyped'
  BY <1>1 DEF Parts, StopCancel, FlagsTyped
<1>3. EndTyped'
  BY <1>1 DEF Parts, StopCancel, EndTyped
<1>4. Birth'
  BY <1>1 DEF Parts, StopCancel, Birth
<1>5. Cancels'
  BY <1>1 DEF Parts, StopCancel, Cancels, Failing
<1>. QED BY <1>1, <1>2, <1>3, <1>4, <1>5, ClientTypedSame, BatchTypedSame,
            RequestTypedSame, PostTypedSame, UploaderTypedSame, PacketTypedSame,
            WaiterTypedSame, SlotsTypedSame, WriteTypedSame, ReadTypedSame,
            MembershipSame, FlightSame, NumberingSame, NoGapSame, EndingSame,
            ReasonsSame DEF Parts

\* and the post of a stream.
LEMMA StopPostKeeps ==
  ASSUME Parts, StopPost
  PROVE  Parts'
<1>1. UNCHANGED <<mode, actors, client, dial, registered, err, cancelled,
                  uploadCancelled, closing, data, closed, closeErr, waiting,
                  download, downloadDone, buffered, bodyClosed, uploader, seq,
                  payload, piece, waiter, wr, rd>>
  BY DEF StopPost, MonitorOnly, Cancelled, clientVars, endVars, batchVars,
         requestVars, uploadVars
<1>2. EndTyped'
  BY <1>1 DEF Parts, StopPost, Cancelled, EndTyped
<1>3. PostTyped'
  BY <1>1 DEF Parts, StopPost, Cancelled, PostTyped
<1>4. Birth'
  BY <1>1 DEF Parts, StopPost, Cancelled, Birth
<1>5. Flight'
  BY <1>1 DEF Parts, StopPost, Cancelled, Flight, PostDone, InFlight
<1>6. Numbering'
  BY <1>1 DEF Parts, StopPost, Cancelled, Numbering, Reaches, Bytes
<1>7. NoGap'
  BY <1>1 DEF Parts, StopPost, Cancelled, NoGap
<1>8. Cancels'
  BY <1>1 DEF Parts, StopPost, Cancelled, Cancels, Failing
<1>9. Reasons'
  BY <1>1 DEF Parts, StopPost, Cancelled, Reasons, Ended, Real, Piped, CtxDone
<1>. QED BY <1>1, <1>2, <1>3, <1>4, <1>5, <1>6, <1>7, <1>8, <1>9,
            ClientTypedSame, FlagsTypedSame, BatchTypedSame, RequestTypedSame,
            UploaderTypedSame, PacketTypedSame, WaiterTypedSame, SlotsTypedSame,
            WriteTypedSame, ReadTypedSame, MembershipSame, EndingSame DEF Parts

\* The uploader looks whether it was cancelled.
LEMMA TopKeeps ==
  ASSUME Parts, Top
  PROVE  Parts'
<1>1. UNCHANGED <<mode, actors, client, dial, registered, err, cancelled,
                  uploadCancelled, closing, monitor, data, closed, closeErr,
                  waiting, download, downloadDone, buffered, post, bodyClosed,
                  seq, payload, piece, waiter, wr, rd>>
  BY DEF Top, UploaderOnly, UploaderGoto, clientVars, endVars, batchVars,
         requestVars, uploadVars
<1>2. UploaderTyped'
  BY <1>1 DEF Parts, Top, UploaderGoto, UploaderTyped
<1>3. Birth'
  BY <1>1 DEF Parts, Top, UploaderGoto, Birth
<1>4. Flight'
  BY <1>1 DEF Parts, Top, UploaderGoto, Flight, PostDone, InFlight
<1>5. Numbering'
  BY <1>1 DEF Parts, Top, UploaderGoto, Numbering, Reaches, Bytes
<1>6. Ending'
  BY <1>1 DEF Parts, Top, UploaderGoto, Ending, UploadDone
<1>7. Cancels'
  BY <1>1 DEF Parts, Top, UploaderGoto, Cancels, Failing
<1>. QED BY <1>1, <1>2, <1>3, <1>4, <1>5, <1>6, <1>7, ClientTypedSame,
            FlagsTypedSame,
            EndTypedSame, BatchTypedSame, RequestTypedSame, PostTypedSame,
            PacketTypedSame, WaiterTypedSame, SlotsTypedSame, WriteTypedSame,
            ReadTypedSame, MembershipSame, NoGapSame, ReasonsSame
            DEF Parts

\* It takes what was written,
LEMMA DrainKeeps ==
  ASSUME Parts, Drain
  PROVE  Parts'
<1>1. UNCHANGED <<mode, actors, client, dial, registered, err, cancelled,
                  uploadCancelled, closing, monitor, closed, closeErr, download,
                  downloadDone, buffered, post, bodyClosed, seq, piece, waiter,
                  wr, rd>>
  BY DEF Drain, UploaderOnly, clientVars, endVars, batchVars, requestVars,
         uploadVars
<1>2. BatchTyped'
  BY <1>1 DEF Parts, Drain, BatchTyped
<1>3. UploaderTyped'
  BY <1>1 DEF Parts, Drain, UploaderTyped
<1>4. PacketTyped'
  BY <1>1 DEF Parts, Drain, PacketTyped, Numbering, Bytes, BatchTyped,
              WriteTyped, CallType
<1>5. Birth'
  BY <1>1 DEF Parts, Drain, Birth
<1>6. Flight'
  BY <1>1 DEF Parts, Drain, Flight, PostDone, InFlight
<1>7. Numbering'
  BY <1>1 DEF Parts, Drain, Numbering, Reaches, Bytes, PacketTyped, BatchTyped,
              Flight
<1>8. Ending'
  BY <1>1 DEF Parts, Drain, Ending, UploadDone
<1>9. Cancels'
  BY <1>1 DEF Parts, Drain, Cancels, Failing
<1>. QED BY <1>1, <1>2, <1>3, <1>4, <1>5, <1>6, <1>7, <1>8, <1>9,
            ClientTypedSame,
            FlagsTypedSame, EndTypedSame, RequestTypedSame, PostTypedSame,
            WaiterTypedSame, SlotsTypedSame, WriteTypedSame, ReadTypedSame,
            MembershipSame, NoGapSame, ReasonsSame DEF Parts

\* or waits for it,
LEMMA DrainWaitKeeps ==
  ASSUME Parts, DrainWait
  PROVE  Parts'
<1>1. UNCHANGED <<mode, actors, client, dial, registered, err, cancelled,
                  uploadCancelled, closing, monitor, data, closed, closeErr,
                  download, downloadDone, buffered, post, bodyClosed, seq,
                  payload, piece, waiter, wr, rd>>
  BY DEF DrainWait, UploaderOnly, clientVars, endVars, batchVars, requestVars,
         uploadVars
<1>2. BatchTyped'
  BY <1>1 DEF Parts, DrainWait, BatchTyped
<1>3. UploaderTyped'
  BY <1>1 DEF Parts, DrainWait, UploaderTyped
<1>4. Birth'
  BY <1>1 DEF Parts, DrainWait, Birth
<1>5. Flight'
  BY <1>1 DEF Parts, DrainWait, Flight, PostDone, InFlight
<1>6. Numbering'
  BY <1>1 DEF Parts, DrainWait, Numbering, Reaches, Bytes
<1>7. Ending'
  BY <1>1 DEF Parts, DrainWait, Ending, UploadDone
<1>8. Cancels'
  BY <1>1 DEF Parts, DrainWait, Cancels, Failing
<1>. QED BY <1>1, <1>2, <1>3, <1>4, <1>5, <1>6, <1>7, <1>8, ClientTypedSame,
            FlagsTypedSame, EndTypedSame, RequestTypedSame, PostTypedSame,
            PacketTypedSame, WaiterTypedSame, SlotsTypedSame, WriteTypedSame,
            ReadTypedSame, MembershipSame, NoGapSame, ReasonsSame
            DEF Parts

\* and is woken.
LEMMA DrainWokenKeeps ==
  ASSUME Parts, DrainWoken
  PROVE  Parts'
<1>1. UNCHANGED <<mode, actors, client, dial, registered, err, cancelled,
                  uploadCancelled, closing, monitor, data, closed, closeErr,
                  waiting, download, downloadDone, buffered, post, bodyClosed,
                  seq, payload, piece, waiter, wr, rd>>
  BY DEF DrainWoken, UploaderOnly, UploaderGoto, clientVars, endVars, batchVars,
         requestVars, uploadVars
<1>2. UploaderTyped'
  BY <1>1 DEF Parts, DrainWoken, UploaderGoto, UploaderTyped
<1>3. Birth'
  BY <1>1 DEF Parts, DrainWoken, UploaderGoto, Birth
<1>4. Flight'
  BY <1>1 DEF Parts, DrainWoken, UploaderGoto, Flight, PostDone, InFlight
<1>5. Numbering'
  BY <1>1 DEF Parts, DrainWoken, UploaderGoto, Numbering, Reaches, Bytes
<1>6. Ending'
  BY <1>1 DEF Parts, DrainWoken, UploaderGoto, Ending, UploadDone
<1>7. Cancels'
  BY <1>1 DEF Parts, DrainWoken, UploaderGoto, Cancels, Failing
<1>. QED BY <1>1, <1>2, <1>3, <1>4, <1>5, <1>6, <1>7, ClientTypedSame,
            FlagsTypedSame,
            EndTypedSame, BatchTypedSame, RequestTypedSame, PostTypedSame,
            PacketTypedSame, WaiterTypedSame, SlotsTypedSame, WriteTypedSame,
            ReadTypedSame, MembershipSame, NoGapSame, ReasonsSame
            DEF Parts

\* The batch is closed and empty.
LEMMA DrainEndKeeps ==
  ASSUME Parts, DrainEnd
  PROVE  Parts'
<1>1. UNCHANGED <<mode, actors, client, dial, registered, err, cancelled,
                  uploadCancelled, closing, monitor, data, closed, closeErr,
                  waiting, downloadDone, buffered, bodyClosed, seq, payload,
                  piece, waiter, wr, rd>>
  BY DEF DrainEnd, UploaderOnly, clientVars, endVars, batchVars, requestVars,
         uploadVars
<1>a. /\ uploader = "drain" /\ closed
      /\ uploader' = IF mode = "packet-up" THEN "join" ELSE "gone"
      /\ download' = IF mode = "stream-one" /\ download = "open" THEN "EOF"
                     ELSE download
  BY DEF DrainEnd
<1>b. /\ PostTyped'
      /\ \A i \in Posts :
            post'[i] # post[i] =>
               mode = "stream-up" /\ i = 0 /\ post[i] = "open" /\ post'[i] = "EOF"
  <2>1. post' \in {post} \cup IF mode = "stream-up"
                              THEN {[post EXCEPT ![0] = IF @ = "open" THEN "EOF"
                                                        ELSE @]} ELSE {}
    BY DEF DrainEnd
  <2>. QED BY <2>1 DEF Parts, PostTyped
<1>c. 0 \in Posts
  BY DEF Posts
<1>2. RequestTyped'
  BY <1>1, <1>a, <1>b, <1>c DEF Parts, RequestTyped
<1>3. PostTyped'
  BY <1>1, <1>a, <1>b, <1>c DEF Parts, PostTyped
<1>4. UploaderTyped'
  BY <1>1, <1>a, <1>b, <1>c DEF Parts, UploaderTyped
<1>5. Birth'
  BY <1>1, <1>a, <1>b, <1>c DEF Parts, Birth
<1>6. Flight'
  BY <1>1, <1>a, <1>b, <1>c DEF Parts, Flight, PostDone, InFlight
<1>7. Numbering'
  BY <1>1, <1>a, <1>b, <1>c DEF Parts, Numbering, Reaches, Bytes
<1>8. NoGap'
  BY <1>1, <1>a, <1>b, <1>c, NoGapMade DEF Parts, NoGap
<1>9. Ending'
  BY <1>1, <1>a, <1>b, <1>c DEF Parts, Ending, UploadDone
<1>10. Cancels'
  BY <1>1, <1>a, <1>b, <1>c DEF Parts, Cancels, Failing
<1>11. Reasons'
  BY <1>1, <1>a, <1>b, <1>c DEF Parts, Reasons, Ended, Real, Piped, CtxDone
<1>. QED BY <1>1, <1>2, <1>3, <1>4, <1>5, <1>6, <1>7, <1>8, <1>9, <1>10, <1>11,
            ClientTypedSame, FlagsTypedSame, EndTypedSame, BatchTypedSame,
            PacketTypedSame, WaiterTypedSame, SlotsTypedSame, WriteTypedSame,
            ReadTypedSame, MembershipSame DEF Parts

\* The bytes of a stream were sent, or its request has ended.
LEMMA BodySentKeeps ==
  ASSUME Parts, BodySent
  PROVE  Parts'
<1>1. UNCHANGED <<mode, actors, client, dial, registered, err, cancelled,
                  uploadCancelled, closing, monitor, data, closed, closeErr,
                  waiting, download, downloadDone, buffered, post, bodyClosed,
                  seq, payload, piece, waiter, wr, rd>>
  BY DEF BodySent, UploaderOnly, UploaderGoto, clientVars, endVars, batchVars,
         requestVars, uploadVars
<1>2. UploaderTyped'
  BY <1>1 DEF Parts, BodySent, UploaderGoto, UploaderTyped
<1>3. Birth'
  BY <1>1 DEF Parts, BodySent, UploaderGoto, Birth
<1>4. Flight'
  BY <1>1 DEF Parts, BodySent, UploaderGoto, Flight, PostDone, InFlight
<1>5. Numbering'
  BY <1>1 DEF Parts, BodySent, UploaderGoto, Numbering, Reaches, Bytes, Flight
<1>6. Ending'
  BY <1>1 DEF Parts, BodySent, UploaderGoto, Ending, UploadDone
<1>7. Cancels'
  BY <1>1 DEF Parts, BodySent, UploaderGoto, Cancels, Failing
<1>. QED BY <1>1, <1>2, <1>3, <1>4, <1>5, <1>6, <1>7, ClientTypedSame,
            FlagsTypedSame,
            EndTypedSame, BatchTypedSame, RequestTypedSame, PostTypedSame,
            PacketTypedSame, WaiterTypedSame, SlotsTypedSame, WriteTypedSame,
            ReadTypedSame, MembershipSame, NoGapSame, ReasonsSame
            DEF Parts

\* A packet gets a slot and its number.
LEMMA TakeSlotKeeps ==
  ASSUME Parts, TakeSlot
  PROVE  Parts'
<1>1. UNCHANGED <<mode, actors, client, dial, registered, err, cancelled,
                  uploadCancelled, closing, monitor, data, closed, closeErr,
                  waiting, download, downloadDone, buffered, post, bodyClosed,
                  payload, piece, waiter, wr, rd>>
  BY DEF TakeSlot, UploaderOnly, clientVars, endVars, batchVars, requestVars,
         uploadVars
<1>2. UploaderTyped'
  BY <1>1 DEF Parts, TakeSlot, UploaderTyped
<1>3. PacketTyped'
  BY <1>1 DEF Parts, TakeSlot, PacketTyped, Numbering, Bytes, BatchTyped,
              WriteTyped, CallType
<1>4. Birth'
  BY <1>1 DEF Parts, TakeSlot, Birth
<1>5. Flight'
  BY <1>1 DEF Parts, TakeSlot, Flight, PostDone, InFlight
<1>6. Numbering'
  <2>1. seq \in Nat /\ payload[1] \in Nat /\ payload[2] \in Nat
    BY DEF Parts, PacketTyped
  <2>2. CASE uploader' = "join" /\ seq' = seq
    BY <1>1, <2>1, <2>2 DEF Parts, Numbering, Reaches, Bytes
  <2>3. CASE uploader' = "start" /\ seq' = seq + 1
    <3>1. uploader = "slot" /\ seq' - 1 = seq /\ seq' \in Nat
      BY <2>1, <2>3 DEF TakeSlot
    <3>2. mode = "packet-up" => Reaches(seq' - 1, payload[1])
      BY <3>1 DEF Parts, Numbering
    <3>3. mode = "packet-up" =>
             IF seq' - 1 = 0 THEN payload'[1] = 0
             ELSE /\ post'[seq' - 1 - 1] # "none"
                  /\ piece'[seq' - 1 - 1][2] = payload'[1]
      BY <1>1, <3>2 DEF Reaches
    <3>4. mode = "packet-up" =>
             \A i \in Posts : post'[i] # "none" => i < seq' /\ i < seq' - 1
      BY <1>1, <2>3, <3>1 DEF Parts, Numbering, Posts
    <3>5. /\ Bytes' + wr'.left <= MaxBytes /\ seq' <= payload'[2]
          /\ 0 < seq' /\ seq' - 1 <= payload'[1] /\ payload'[1] < payload'[2]
      <4>1. Bytes + wr.left <= MaxBytes /\ Bytes' + wr'.left = Bytes + wr.left
        BY <1>1 DEF Parts, Numbering, Bytes
      <4>2. seq <= payload[1] /\ payload[1] < payload[2]
        BY <3>1 DEF Parts, Numbering
      <4>. QED BY <1>1, <2>1, <2>3, <3>1, <4>1, <4>2
    <3>. QED BY <1>1, <2>3, <3>3, <3>4, <3>5 DEF Numbering, Reaches
  <2>. QED BY <2>2, <2>3 DEF TakeSlot
<1>7. Ending'
  BY <1>1 DEF Parts, TakeSlot, Ending, UploadDone
<1>8. Cancels'
  BY <1>1 DEF Parts, TakeSlot, Cancels, Failing
<1>. QED BY <1>1, <1>2, <1>3, <1>4, <1>5, <1>6, <1>7, <1>8, ClientTypedSame,
            FlagsTypedSame, EndTypedSame, BatchTypedSame, RequestTypedSame,
            PostTypedSame, WaiterTypedSame, SlotsTypedSame, WriteTypedSame,
            ReadTypedSame, MembershipSame, NoGapSame, ReasonsSame
            DEF Parts

\* A packet is posted.
LEMMA PostedKeeps ==
  ASSUME Parts, uploader = "start", Posted
  PROVE  Parts'
<1>1. UNCHANGED <<mode, actors, client, dial, registered, err, cancelled,
                  uploadCancelled, closing, monitor, data, closed, closeErr,
                  waiting, download, downloadDone, buffered, bodyClosed, seq,
                  payload, wr, rd>>
  BY DEF Posted, UploaderOnly, clientVars, endVars, batchVars, requestVars,
         uploadVars
<1>a. /\ mode = "packet-up" /\ uploader' = "top" /\ seq - 1 \in Posts
      /\ seq \in Nat /\ post[seq - 1] = "none"
  <2>1. mode = "packet-up" /\ uploader' = "top"
    BY DEF Parts, Posted, Flight
  <2>2. 0 < seq /\ seq \in 0..MaxBytes
    BY DEF Parts, Numbering, PacketTyped
  <2>3. seq - 1 \in Posts
    BY <2>2 DEF Posts
  <2>. QED BY <2>1, <2>2, <2>3 DEF Parts, Numbering, PostTyped
<1>b. /\ PostTyped' /\ WaiterTyped' /\ PacketTyped'
      /\ \A i \in Posts :
            /\ post'[i] = IF i = seq - 1 THEN "open" ELSE post[i]
            /\ waiter'[i] = IF i = seq - 1 THEN "wait" ELSE waiter[i]
            /\ piece'[i] = IF i = seq - 1 THEN payload ELSE piece[i]
  BY <1>1, <1>a DEF Parts, Posted, PostTyped, WaiterTyped, PacketTyped
<1>2. PostTyped'
  BY <1>1, <1>a, <1>b DEF Parts, PostTyped
<1>3. UploaderTyped'
  BY <1>1, <1>a, <1>b DEF Parts, UploaderTyped
<1>4. PacketTyped'
  BY <1>1, <1>a, <1>b DEF Parts, PacketTyped
<1>5. WaiterTyped'
  BY <1>1, <1>a, <1>b DEF Parts, WaiterTyped
<1>6. SlotsTyped'
  BY <1>1, <1>a, <1>b, OneMoreFlying, FlyingFinite DEF Parts, SlotsTyped,
         Flight, FlagsTyped
<1>7. Birth'
  BY <1>1, <1>a, <1>b DEF Parts, Birth
<1>8. Flight'
  BY <1>1, <1>a, <1>b DEF Parts, Flight, PostDone
<1>9. Numbering'
  <2>. USE <1>1, <1>a, <1>b
  <2>1. /\ seq - 1 < seq /\ Bytes' = Bytes /\ wr' = wr
        /\ Bytes + wr.left <= MaxBytes /\ seq <= payload[2]
    BY DEF Parts, Numbering, Bytes
  <2>2. \A i \in Posts : post'[i] # "none" => i < seq'
    BY DEF Parts, Numbering, Posts
  <2>3. Reaches(seq, payload[2])'
    <3>1. seq # 0 /\ piece'[seq - 1] = payload /\ post'[seq - 1] = "open"
      BY DEF Parts, Numbering
    <3>2. seq' = seq /\ payload' = payload
      OBVIOUS
    <3>. QED BY <3>1, <3>2 DEF Reaches
  <2>. QED BY <2>1, <2>2, <2>3 DEF Numbering
<1>10. NoGap'
  <2>. SUFFICES ASSUME NEW i \in Posts, post'[i] # "none"
                PROVE  IF i = 0 THEN piece'[i][1] = 0
                       ELSE /\ post'[i - 1] # "none"
                            /\ piece'[i][1] = piece'[i - 1][2]
    BY <1>1, <1>a DEF NoGap
  <2>1. i # 0 => i - 1 \in Posts
    BY DEF Posts
  <2>2. CASE i = seq - 1
    <3>1. Reaches(i, payload[1])
      BY <1>a, <2>2 DEF Parts, Numbering
    <3>. QED BY <1>a, <1>b, <2>1, <2>2, <3>1 DEF Reaches, Posts
  <2>3. CASE i # seq - 1
    <3>1. post[i] # "none" /\ i < seq - 1
      BY <1>a, <1>b, <2>3 DEF Parts, Numbering
    <3>2. i # 0 => i - 1 # seq - 1
      BY <1>a, <3>1 DEF Posts
    <3>. QED BY <1>a, <1>b, <2>1, <2>3, <3>1, <3>2 DEF Parts, NoGap
  <2>. QED BY <2>2, <2>3
<1>11. Ending'
  BY <1>1, <1>a, <1>b DEF Parts, Ending, UploadDone
<1>12. Cancels'
  BY <1>1, <1>a, <1>b DEF Parts, Cancels, Failing
<1>13. Reasons'
  BY <1>1, <1>a, <1>b DEF Parts, Reasons, Ended, Real, Piped, CtxDone
<1>. QED BY <1>1, <1>2, <1>3, <1>4, <1>5, <1>6, <1>7, <1>8, <1>9, <1>10, <1>11,
            <1>12, <1>13, ClientTypedSame, FlagsTypedSame, EndTypedSame,
            BatchTypedSame, RequestTypedSame, WriteTypedSame, ReadTypedSame,
            MembershipSame DEF Parts

\* A packet cannot be posted.
LEMMA startFailsKeeps ==
  ASSUME Parts, uploader = "start", UploaderGoto(IF UploadCtxDone THEN "join" ELSE "setError")
  PROVE  Parts'
<1>1. UNCHANGED <<mode, actors, client, dial, registered, err, cancelled,
                  uploadCancelled, closing, monitor, data, closed, closeErr,
                  waiting, download, downloadDone, buffered, post, bodyClosed,
                  seq, payload, piece, waiter, wr, rd>>
  BY DEF UploaderOnly, UploaderGoto, clientVars, endVars, batchVars,
         requestVars, uploadVars
<1>2. UploaderTyped'
  BY <1>1 DEF Parts, UploaderGoto, UploaderTyped
<1>3. Birth'
  BY <1>1 DEF Parts, UploaderGoto, Birth
<1>4. Flight'
  BY <1>1 DEF Parts, UploaderGoto, Flight, PostDone, InFlight
<1>5. Numbering'
  BY <1>1 DEF Parts, UploaderGoto, Numbering, Reaches, Bytes
<1>6. Ending'
  BY <1>1 DEF Parts, UploaderGoto, Ending, UploadDone
<1>7. Cancels'
  BY <1>1 DEF Parts, UploaderGoto, Cancels, Failing
<1>. QED BY <1>1, <1>2, <1>3, <1>4, <1>5, <1>6, <1>7, ClientTypedSame,
            FlagsTypedSame,
            EndTypedSame, BatchTypedSame, RequestTypedSame, PostTypedSame,
            PacketTypedSame, WaiterTypedSame, SlotsTypedSame, WriteTypedSame,
            ReadTypedSame, MembershipSame, NoGapSame, ReasonsSame
            DEF Parts

\* The uploader takes the connection down.
LEMMA UploaderFailsKeeps ==
  ASSUME Parts, UploaderFails
  PROVE  Parts'
<1>1. UNCHANGED <<mode, actors, client, dial, registered, uploadCancelled,
                  closing, monitor, data, downloadDone, buffered, post,
                  bodyClosed, seq, payload, piece, waiter, wr, rd>>
  BY DEF UploaderFails, UploaderOnly, FailStep, setError, First, closeWithError,
         Cancelled, clientVars, endVars, batchVars, requestVars, uploadVars
<1>2. FlagsTyped'
  BY <1>1 DEF Parts, UploaderFails, FailStep, setError, First, closeWithError,
              Cancelled, batchVars, FlagsTyped
<1>3. EndTyped'
  BY <1>1 DEF Parts, UploaderFails, FailStep, setError, First, closeWithError,
              Cancelled, batchVars, EndTyped
<1>4. BatchTyped'
  BY <1>1 DEF Parts, UploaderFails, FailStep, setError, First, closeWithError,
              Cancelled, batchVars, BatchTyped
<1>5. RequestTyped'
  BY <1>1 DEF Parts, UploaderFails, FailStep, setError, First, closeWithError,
              Cancelled, batchVars, RequestTyped
<1>6. UploaderTyped'
  BY <1>1 DEF Parts, UploaderFails, FailStep, setError, First, closeWithError,
              Cancelled, batchVars, UploaderTyped
<1>7. Birth'
  BY <1>1 DEF Parts, UploaderFails, FailStep, setError, First, closeWithError,
              Cancelled, batchVars, Birth
<1>8. Flight'
  BY <1>1 DEF Parts, UploaderFails, FailStep, setError, First, closeWithError,
              Cancelled, batchVars, Flight, PostDone, InFlight
<1>9. Numbering'
  BY <1>1 DEF Parts, UploaderFails, FailStep, setError, First, closeWithError,
              Cancelled, batchVars, Numbering, Reaches, Bytes
<1>10. Ending'
  BY <1>1 DEF Parts, UploaderFails, FailStep, setError, First, closeWithError,
              Cancelled, batchVars, Ending, UploadDone
<1>11. Cancels'
  BY <1>1 DEF Parts, UploaderFails, FailStep, setError, First, closeWithError,
              Cancelled, batchVars, Cancels, Failing
<1>12. Reasons'
  BY <1>1 DEF Parts, UploaderFails, FailStep, setError, First, closeWithError,
              Cancelled, batchVars, Reasons, Ended, Real, Piped, CtxDone
<1>. QED BY <1>1, <1>2, <1>3, <1>4, <1>5, <1>6, <1>7, <1>8, <1>9, <1>10, <1>11,
            <1>12, ClientTypedSame, PostTypedSame, PacketTypedSame,
            WaiterTypedSame, SlotsTypedSame, WriteTypedSame, ReadTypedSame,
            MembershipSame, NoGapSame DEF Parts

\* The uploader leaves when no packet is in flight.
LEMMA UploadsJoinedKeeps ==
  ASSUME Parts, UploadsJoined
  PROVE  Parts'
<1>1. UNCHANGED <<mode, actors, client, dial, registered, err, cancelled,
                  uploadCancelled, closing, monitor, data, closed, closeErr,
                  waiting, download, downloadDone, buffered, post, bodyClosed,
                  seq, payload, piece, waiter, wr, rd>>
  BY DEF UploadsJoined, UploaderOnly, UploaderGoto, clientVars, endVars,
         batchVars, requestVars, uploadVars
<1>2. UploaderTyped'
  BY <1>1 DEF Parts, UploadsJoined, UploaderGoto, UploaderTyped
<1>3. Birth'
  BY <1>1 DEF Parts, UploadsJoined, UploaderGoto, Birth
<1>4. Flight'
  BY <1>1, NoneFlying DEF Parts, UploadsJoined, UploaderGoto, Flight, PostDone,
                          InFlight
<1>5. Numbering'
  BY <1>1 DEF Parts, UploadsJoined, UploaderGoto, Numbering, Reaches, Bytes
<1>6. Ending'
  BY <1>1 DEF Parts, UploadsJoined, UploaderGoto, Ending, UploadDone
<1>7. Cancels'
  BY <1>1 DEF Parts, UploadsJoined, UploaderGoto, Cancels, Failing
<1>. QED BY <1>1, <1>2, <1>3, <1>4, <1>5, <1>6, <1>7, ClientTypedSame,
            FlagsTypedSame,
            EndTypedSame, BatchTypedSame, RequestTypedSame, PostTypedSame,
            PacketTypedSame, WaiterTypedSame, SlotsTypedSame, WriteTypedSame,
            ReadTypedSame, MembershipSame, NoGapSame, ReasonsSame
            DEF Parts

\* A request is answered, or its context is done.
LEMMA WaitEndsKeeps ==
  ASSUME Parts, NEW i \in Posts, WaitEnds(i)
  PROVE  Parts'
<1>1. UNCHANGED <<mode, actors, client, dial, registered, err, cancelled,
                  uploadCancelled, closing, monitor, data, closed, closeErr,
                  waiting, download, downloadDone, buffered, bodyClosed,
                  uploader, seq, payload, piece, wr, rd>>
  BY DEF WaitEnds, WaiterOnly, WaiterGoto, Cancelled, UploadCtxDone, clientVars,
         endVars, batchVars, requestVars, uploadVars
<1>a. /\ waiter[i] = "wait" /\ waiter'[i] \in {"succeeded", "erred"}
      /\ \A j \in Posts \ {i} : waiter'[j] = waiter[j] /\ post'[j] = post[j]
      /\ PostTyped' /\ WaiterTyped'
  BY DEF WaitEnds, WaiterGoto, Cancelled, Parts, PostTyped, WaiterTyped
<1>b. /\ post'[i] = IF post[i] = "open" THEN "canceled" ELSE post[i]
      /\ mode = "stream-up" =>
            /\ post[i] = "open" => uploadCancelled \/ cancelled
            /\ waiter'[i] = "succeeded" => post[i] = "EOF"
  BY DEF WaitEnds, WaiterGoto, Cancelled, UploadCtxDone, Parts,
         PostTyped, WaiterTyped
<1>c. 0 \in Posts
  BY DEF Posts
<1>d. InFlight' <= InFlight /\ InFlight' \in Nat /\ InFlight \in Nat
  BY <1>a, NoMoreFlying, FlyingFinite
<1>2. PostTyped'
  BY <1>1, <1>a, <1>b, <1>c DEF Parts, PostTyped
<1>3. WaiterTyped'
  BY <1>1, <1>a, <1>b, <1>c DEF Parts, WaiterTyped
<1>4. SlotsTyped'
  BY <1>1, <1>a, <1>b, <1>c, <1>d DEF Parts, SlotsTyped
<1>5. Birth'
  BY <1>1, <1>a, <1>b, <1>c DEF Parts, Birth, Flight
<1>6. Flight'
  BY <1>1, <1>a, <1>b, <1>c, <1>d DEF Parts, Flight, PostDone, FlagsTyped
<1>7. Numbering'
  BY <1>1, <1>a, <1>b, <1>c, NumberingMade DEF Parts, Numbering, Reaches, Bytes
<1>8. NoGap'
  BY <1>1, <1>a, <1>b, <1>c, NoGapMade DEF Parts, NoGap
<1>9. Ending'
  BY <1>1, <1>a, <1>b, <1>c DEF Parts, Ending, UploadDone, Flight
<1>10. Cancels'
  BY <1>1, <1>a, <1>b, <1>c DEF Parts, Cancels, Failing, Flight
<1>11. Reasons'
  BY <1>1, <1>a, <1>b, <1>c DEF Parts, Reasons, Ended, Real, Piped, CtxDone
<1>. QED BY <1>1, <1>2, <1>3, <1>4, <1>5, <1>6, <1>7, <1>8, <1>9, <1>10, <1>11,
            ClientTypedSame, FlagsTypedSame, EndTypedSame, BatchTypedSame,
            RequestTypedSame, UploaderTypedSame, PacketTypedSame,
            WriteTypedSame, ReadTypedSame, MembershipSame DEF Parts

\* The goroutine that waited for it is done,
LEMMA WaitReturnsKeeps ==
  ASSUME Parts, NEW i \in Posts, WaitReturns(i)
  PROVE  Parts'
<1>1. UNCHANGED <<mode, actors, client, dial, registered, err, cancelled,
                  uploadCancelled, closing, monitor, data, download,
                  downloadDone, buffered, post, bodyClosed, uploader, seq,
                  payload, piece, wr, rd>>
  BY DEF WaitReturns, WaiterOnly, WaiterGoto, PostDone, closeWithError,
         clientVars, endVars, batchVars, requestVars, uploadVars
<1>a. /\ waiter[i] \in {"succeeded", "erred"} /\ waiter'[i] \in {"gone", "setError"}
      /\ \A j \in Posts \ {i} : waiter'[j] = waiter[j]
      /\ PostDone(i) /\ WaiterTyped'
  BY DEF WaitReturns, WaiterGoto, Parts, WaiterTyped
<1>b. \/ UNCHANGED <<closed, closeErr, waiting>>
      \/ /\ mode = "stream-up" /\ waiter[i] = "succeeded"
         /\ closed' = TRUE /\ closeErr' = "pipe" /\ waiting' = {}
  BY DEF WaitReturns, closeWithError, batchVars
<1>c. 0 \in Posts
  BY DEF Posts
<1>d. InFlight' <= InFlight /\ InFlight' \in Nat /\ InFlight \in Nat
  BY <1>a, NoMoreFlying, FlyingFinite
<1>2. FlagsTyped'
  BY <1>1, <1>a, <1>b, <1>c DEF Parts, FlagsTyped
<1>3. EndTyped'
  BY <1>1, <1>a, <1>b, <1>c DEF Parts, EndTyped
<1>4. BatchTyped'
  BY <1>1, <1>a, <1>b, <1>c DEF Parts, BatchTyped
<1>5. WaiterTyped'
  BY <1>1, <1>a, <1>b, <1>c DEF Parts, WaiterTyped
<1>6. SlotsTyped'
  BY <1>1, <1>a, <1>b, <1>c, <1>d DEF Parts, SlotsTyped
<1>7. Birth'
  BY <1>1, <1>a, <1>b, <1>c DEF Parts, Birth, Flight
<1>8. Flight'
  BY <1>1, <1>a, <1>b, <1>c, <1>d DEF Parts, Flight, PostDone, FlagsTyped
<1>9. Ending'
  BY <1>1, <1>a, <1>b, <1>c DEF Parts, Ending, UploadDone, Flight
<1>10. Cancels'
  BY <1>1, <1>a, <1>b, <1>c DEF Parts, Cancels, Failing
<1>11. Reasons'
  BY <1>1, <1>a, <1>b, <1>c DEF Parts, Reasons, Ended, Real, Piped, CtxDone,
                                Cancels,
                                Flight
<1>. QED BY <1>1, <1>2, <1>3, <1>4, <1>5, <1>6, <1>7, <1>8, <1>9, <1>10, <1>11,
            ClientTypedSame, RequestTypedSame, PostTypedSame, UploaderTypedSame,
            PacketTypedSame, WriteTypedSame, ReadTypedSame, MembershipSame,
            NumberingSame, NoGapSame DEF Parts

\* or takes the connection down.
LEMMA WaiterFailsKeeps ==
  ASSUME Parts, NEW i \in Posts, WaiterFails(i)
  PROVE  Parts'
<1>1. UNCHANGED <<mode, actors, client, dial, registered, uploadCancelled,
                  closing, monitor, data, downloadDone, buffered, post,
                  bodyClosed, uploader, seq, payload, piece, wr, rd>>
  BY DEF WaiterFails, WaiterOnly, WaiterGoto, FailStep, setError, First,
         closeWithError, Cancelled, clientVars, endVars, batchVars, requestVars,
         uploadVars
<1>a. /\ waiter[i] \in {"setError", "closeBatch", "cancelReader", "cancel"}
      /\ waiter'[i] \in {"closeBatch", "cancelReader", "cancel", "gone"}
      /\ \A j \in Posts \ {i} : waiter'[j] = waiter[j]
      /\ WaiterTyped'
  BY DEF WaiterFails, WaiterGoto, FailStep, Parts, WaiterTyped
<1>b. /\ err' = err \/ (err = "none" /\ err' = "upload")
      /\ \/ UNCHANGED <<closed, closeErr, waiting>>
         \/ closed' = TRUE /\ closeErr' = "upload" /\ waiting' = {}
      /\ \/ UNCHANGED <<cancelled, download>>
         \/ /\ waiter[i] = "cancelReader" /\ UNCHANGED cancelled
            /\ download' = IF download = "open" THEN "canceled" ELSE download
         \/ cancelled' = TRUE /\ UNCHANGED download
  BY DEF WaiterFails, FailStep, setError, First, closeWithError, Cancelled,
         batchVars
<1>f. /\ waiter'[i] \in {"closeBatch", "cancelReader", "cancel"} => err' # "none"
      /\ waiter'[i] \in {"cancelReader", "cancel"} => closed'
  <2>1. /\ waiter[i] = "setError" => waiter'[i] = "closeBatch" /\ err' # "none"
        /\ waiter[i] = "closeBatch" => waiter'[i] = "cancelReader" /\ closed'
        /\ waiter[i] = "cancelReader" => waiter'[i] = "cancel"
        /\ waiter[i] = "cancel" => waiter'[i] = "gone"
    <3>1. PICK to \in FailLabels :
                FailStep(waiter[i], to)
                  /\ WaiterGoto(i, IF to = "failed" THEN "gone" ELSE to)
      BY DEF WaiterFails
    <3>2. waiter'[i] = IF to = "failed" THEN "gone" ELSE to
      BY <3>1 DEF WaiterGoto, Parts, WaiterTyped
    <3>3. /\ waiter[i] = "setError" => to = "closeBatch" /\ err' # "none"
          /\ waiter[i] = "closeBatch" => to = "cancelReader" /\ closed'
          /\ waiter[i] = "cancelReader" => to = "cancel"
          /\ waiter[i] = "cancel" => to = "failed"
      BY <1>1, <3>1 DEF FailStep, setError, First, closeWithError, batchVars
    <3>. QED BY <3>2, <3>3
  <2>2. Failing(waiter[i])
    BY DEF Parts, Cancels
  <2>. QED BY <1>a, <1>b, <2>1, <2>2 DEF Failing
<1>c. 0 \in Posts
  BY DEF Posts
<1>d. InFlight' <= InFlight /\ InFlight' \in Nat /\ InFlight \in Nat
  BY <1>a, NoMoreFlying, FlyingFinite
<1>2. FlagsTyped'
  BY <1>1, <1>a, <1>b, <1>c DEF Parts, FlagsTyped
<1>3. EndTyped'
  BY <1>1, <1>a, <1>b, <1>c DEF Parts, EndTyped
<1>4. BatchTyped'
  BY <1>1, <1>a, <1>b, <1>c DEF Parts, BatchTyped
<1>5. RequestTyped'
  BY <1>1, <1>a, <1>b, <1>c DEF Parts, RequestTyped
<1>6. WaiterTyped'
  BY <1>1, <1>a, <1>b, <1>c DEF Parts, WaiterTyped
<1>7. SlotsTyped'
  BY <1>1, <1>a, <1>b, <1>c, <1>d DEF Parts, SlotsTyped
<1>8. Birth'
  BY <1>1, <1>a, <1>b, <1>c DEF Parts, Birth, Flight
<1>9. Flight'
  BY <1>1, <1>a, <1>b, <1>c, <1>d DEF Parts, Flight, PostDone, FlagsTyped
<1>10. Ending'
  BY <1>1, <1>a, <1>b, <1>c DEF Parts, Ending, UploadDone
<1>11. Cancels'
  BY <1>1, <1>a, <1>b, <1>c, <1>f DEF Parts, Cancels, Failing
<1>12. Reasons'
  BY <1>1, <1>a, <1>b, <1>c DEF Parts, Reasons, Ended, Real, Piped, CtxDone
<1>. QED BY <1>1, <1>2, <1>3, <1>4, <1>5, <1>6, <1>7, <1>8, <1>9, <1>10, <1>11,
            <1>12, ClientTypedSame, PostTypedSame, UploaderTypedSame,
            PacketTypedSame, WriteTypedSame, ReadTypedSame, MembershipSame,
            NumberingSame, NoGapSame DEF Parts

\* The post of a stream ends.
LEMMA NetPostKeeps ==
  ASSUME Parts, NEW e \in {"EOF", "failed"}, NetPost(e)
  PROVE  Parts'
<1>1. UNCHANGED <<mode, actors, client, dial, registered, err, cancelled,
                  uploadCancelled, closing, monitor, data, closed, closeErr,
                  waiting, download, downloadDone, buffered, bodyClosed,
                  uploader, seq, payload, piece, waiter, wr, rd>>
  BY DEF NetPost, RequestOnly, clientVars, endVars, batchVars, requestVars,
         uploadVars
<1>2. PostTyped'
  BY <1>1 DEF Parts, NetPost, PostTyped
<1>3. Birth'
  BY <1>1 DEF Parts, NetPost, Birth
<1>4. Flight'
  BY <1>1 DEF Parts, NetPost, Flight, PostDone, InFlight
<1>5. Numbering'
  BY <1>1 DEF Parts, NetPost, Numbering, Reaches, Bytes
<1>6. NoGap'
  BY <1>1 DEF Parts, NetPost, NoGap
<1>7. Cancels'
  BY <1>1 DEF Parts, NetPost, Cancels, Failing
<1>8. Reasons'
  BY <1>1 DEF Parts, NetPost, Reasons, Ended, Real, Piped, CtxDone
<1>. QED BY <1>1, <1>2, <1>3, <1>4, <1>5, <1>6, <1>7, <1>8, ClientTypedSame,
            FlagsTypedSame, EndTypedSame, BatchTypedSame, RequestTypedSame,
            UploaderTypedSame, PacketTypedSame, WaiterTypedSame, SlotsTypedSame,
            WriteTypedSame, ReadTypedSame, MembershipSame, EndingSame DEF Parts

\* The context of the dial is cancelled.
LEMMA CancelDialKeeps ==
  ASSUME Parts, CancelDial
  PROVE  Parts'
<1>1. UNCHANGED <<mode, actors, client, dial, registered, err, uploadCancelled,
                  closing, monitor, data, closed, closeErr, waiting, download,
                  downloadDone, buffered, post, bodyClosed, uploader, seq,
                  payload, piece, waiter, wr, rd>>
  BY DEF CancelDial, clientVars, endVars, batchVars, requestVars, uploadVars
<1>2. FlagsTyped'
  BY <1>1 DEF Parts, CancelDial, FlagsTyped
<1>3. Birth'
  BY <1>1 DEF Parts, CancelDial, Birth
<1>4. Cancels'
  BY <1>1 DEF Parts, CancelDial, Cancels, Failing
<1>5. Reasons'
  BY <1>1 DEF Parts, CancelDial, Reasons, Ended, Real, Piped, CtxDone
<1>. QED BY <1>1, <1>2, <1>3, <1>4, <1>5, ClientTypedSame, EndTypedSame,
            BatchTypedSame, RequestTypedSame, PostTypedSame, UploaderTypedSame,
            PacketTypedSame, WaiterTypedSame, SlotsTypedSame, WriteTypedSame,
            ReadTypedSame, MembershipSame, FlightSame, NumberingSame, NoGapSame,
            EndingSame DEF Parts

\* Bytes of the response arrive.
LEMMA NetBytesKeeps ==
  ASSUME Parts, NetBytes
  PROVE  Parts'
<1>1. UNCHANGED <<mode, actors, client, dial, registered, err, cancelled,
                  uploadCancelled, closing, monitor, data, closed, closeErr,
                  waiting, download, downloadDone, post, bodyClosed, uploader,
                  seq, payload, piece, waiter, wr, rd>>
  BY DEF NetBytes, RequestOnly, clientVars, endVars, batchVars, requestVars,
         uploadVars
<1>2. RequestTyped'
  BY <1>1 DEF Parts, NetBytes, RequestTyped
<1>. QED BY <1>1, <1>2, ClientTypedSame, FlagsTypedSame, EndTypedSame,
            BatchTypedSame, PostTypedSame, UploaderTypedSame, PacketTypedSame,
            WaiterTypedSame, SlotsTypedSame, WriteTypedSame, ReadTypedSame,
            BirthSame, MembershipSame, FlightSame, NumberingSame, NoGapSame,
            EndingSame, CancelsSame, ReasonsSame DEF Parts

\* The download ends.
LEMMA NetEndKeeps ==
  ASSUME Parts, NEW e \in {"EOF", "download"}, NetEnd(e)
  PROVE  Parts'
<1>1. UNCHANGED <<mode, actors, client, dial, registered, err, cancelled,
                  uploadCancelled, closing, monitor, data, closed, closeErr,
                  waiting, downloadDone, buffered, post, bodyClosed, uploader,
                  seq, payload, piece, waiter, wr, rd>>
  BY DEF NetEnd, RequestOnly, clientVars, endVars, batchVars, requestVars,
         uploadVars
<1>2. RequestTyped'
  BY <1>1 DEF Parts, NetEnd, RequestTyped
<1>3. Birth'
  BY <1>1 DEF Parts, NetEnd, Birth
<1>4. Ending'
  BY <1>1 DEF Parts, NetEnd, Ending, UploadDone
<1>5. Cancels'
  BY <1>1 DEF Parts, NetEnd, Cancels, Failing
<1>6. Reasons'
  BY <1>1 DEF Parts, NetEnd, Reasons, Ended, Real, Piped, CtxDone
<1>. QED BY <1>1, <1>2, <1>3, <1>4, <1>5, <1>6, ClientTypedSame, FlagsTypedSame,
            EndTypedSame, BatchTypedSame, PostTypedSame, UploaderTypedSame,
            PacketTypedSame, WaiterTypedSame, SlotsTypedSame, WriteTypedSame,
            ReadTypedSame, MembershipSame, FlightSame, NumberingSame, NoGapSame
            DEF Parts

\* A request that has ended closes its body.
LEMMA CloseBodyKeeps ==
  ASSUME Parts, CloseBody
  PROVE  Parts'
<1>1. UNCHANGED <<mode, actors, client, dial, registered, err, cancelled,
                  uploadCancelled, closing, monitor, data, download,
                  downloadDone, buffered, post, uploader, seq, payload, piece,
                  waiter, wr, rd>>
  BY DEF CloseBody, RequestOnly, closeWithError, Carrier, clientVars, endVars,
         batchVars, requestVars, uploadVars
<1>a. /\ \/ UNCHANGED <<closed, closeErr, waiting>>
         \/ ~closed /\ closed' = TRUE /\ closeErr' = "pipe" /\ waiting' = {}
      /\ mode # "packet-up" /\ dial = "open"
      /\ mode = "stream-up" => post[0] # "open"
  BY DEF CloseBody, closeWithError, batchVars, Carrier
<1>b. mode = "stream-up" => post[0] \in {"EOF", "failed", "canceled"}
  <2>1. 0 \in Posts
    BY DEF Posts
  <2>. QED BY <1>a, <2>1 DEF Parts, Birth, PostTyped
<1>c. mode \in Mode
  BY DEF Parts, ClientTyped
<1>2. FlagsTyped'
  BY <1>1, <1>a, <1>b, <1>c DEF Parts, CloseBody, closeWithError, Carrier,
                                batchVars, FlagsTyped
<1>3. EndTyped'
  BY <1>1, <1>a, <1>b, <1>c DEF Parts, CloseBody, closeWithError, Carrier,
                                batchVars, EndTyped
<1>4. BatchTyped'
  BY <1>1, <1>a, <1>b, <1>c DEF Parts, CloseBody, closeWithError, Carrier,
                                batchVars, BatchTyped
<1>5. Birth'
  BY <1>1, <1>a, <1>b, <1>c DEF Parts, CloseBody, closeWithError, Carrier,
                                batchVars, Birth
<1>6. Flight'
  BY <1>1, <1>a, <1>b, <1>c DEF Parts, CloseBody, closeWithError, Carrier,
                                batchVars, Flight, PostDone, InFlight
<1>7. Cancels'
  BY <1>1, <1>a, <1>b, <1>c DEF Parts, CloseBody, closeWithError, Carrier,
                                batchVars, Cancels, Failing
<1>8. Reasons'
  BY <1>1, <1>a, <1>b, <1>c DEF Parts, CloseBody, closeWithError, Carrier,
                                batchVars, Reasons, Ended, Real, Piped, CtxDone,
                                Cancels
<1>. QED BY <1>1, <1>2, <1>3, <1>4, <1>5, <1>6, <1>7, <1>8, ClientTypedSame,
            RequestTypedSame, PostTypedSame, UploaderTypedSame, PacketTypedSame,
            WaiterTypedSame, SlotsTypedSame, WriteTypedSame, ReadTypedSame,
            MembershipSame, NumberingSame, NoGapSame, EndingSame DEF Parts

\* The download is done.
LEMMA DownloadDoneKeeps ==
  ASSUME Parts, DownloadDone
  PROVE  Parts'
<1>1. UNCHANGED <<mode, actors, client, dial, registered, err, cancelled,
                  uploadCancelled, closing, monitor, data, closed, closeErr,
                  waiting, download, buffered, post, bodyClosed, uploader, seq,
                  payload, piece, waiter, wr, rd>>
  BY DEF DownloadDone, RequestOnly, clientVars, endVars, batchVars, requestVars,
         uploadVars
<1>2. FlagsTyped'
  BY <1>1 DEF Parts, DownloadDone, FlagsTyped
<1>3. Ending'
  BY <1>1 DEF Parts, DownloadDone, Ending, UploadDone
<1>. QED BY <1>1, <1>2, <1>3, ClientTypedSame, EndTypedSame, BatchTypedSame,
            RequestTypedSame, PostTypedSame, UploaderTypedSame, PacketTypedSame,
            WaiterTypedSame, SlotsTypedSame, WriteTypedSame, ReadTypedSame,
            BirthSame, MembershipSame, FlightSame, NumberingSame, NoGapSame,
            CancelsSame, ReasonsSame DEF Parts

-----------------------------------------------------------------------------
(* The calls of Write and Read.                                            *)

\* What Parts asks of a call of Write and of one of Read.
WriteFits(call) ==
  /\ call \in CallType({"context", "lock", "wait"})
  /\ call.pc = "failed" /\ call.err = "canceled" => CtxDone(call)
  /\ call.result = "canceled" => Ended
  /\ Real(call.err) /\ Real(call.result)
  /\ "pipe" \in {call.err, call.result} => Piped
ReadFits(call) ==
  /\ call \in CallType({"read", "close", "join"})
  /\ call.pc = "failed" /\ call.err = "canceled" => CtxDone(call) \/ err # "none"
  /\ call.pc \in {"close", "join"} /\ call.err = "canceled" => Ended
  /\ call.result = "canceled" => Ended
  /\ Real(call.err) /\ Real(call.result)
  /\ "pipe" \notin {call.err, call.result}

\* From here on what the errors are matters only where it says so.
HIDE DEF Errors, Quiet

\* The calls fit, a call that runs has a connection, and the bytes are accounted for.
LEMMA CallsFit ==
  ASSUME Parts
  PROVE  /\ WriteFits(wr) /\ ReadFits(rd)
         /\ wr.pc # "idle" \/ rd.pc # "idle" => dial = "open"
         /\ Bytes + wr.left <= MaxBytes
         /\ Bytes \in Nat /\ data \in Nat
<1>1. WriteFits(wr)
  BY DEF Parts, WriteTyped, Reasons, WriteFits
<1>2. ReadFits(rd)
  BY DEF Parts, ReadTyped, Reasons, ReadFits
<1>3. wr.pc # "idle" \/ rd.pc # "idle" => dial = "open"
  BY DEF Parts, Birth, Quiet
<1>4. Bytes + wr.left <= MaxBytes
  BY DEF Parts, Numbering
<1>5. Bytes \in Nat /\ data \in Nat
  BY DEF Parts, PacketTyped, BatchTyped, Bytes
<1>. QED BY <1>1, <1>2, <1>3, <1>4, <1>5

\* A step of Write that leaves a fitting call and accounts for its bytes.
LEMMA WriteKeeps ==
  ASSUME Parts, WriteOnly, dial = "open", WriteFits(wr'), BatchTyped',
         Bytes' + wr'.left <= MaxBytes
  PROVE  Parts'
<1>1. UNCHANGED <<mode, actors, client, dial, registered, err, cancelled,
                  uploadCancelled, closing, monitor, closed, closeErr, download,
                  downloadDone, buffered, post, bodyClosed, uploader, seq, payload,
                  piece, waiter, rd>>
  BY DEF WriteOnly, clientVars, endVars, requestVars, uploadVars
<1>2. WriteTyped'
  BY DEF WriteFits, WriteTyped, CallType
<1>3. Birth'
  BY <1>1 DEF Parts, Birth
<1>4. Numbering'
  BY <1>1 DEF Parts, Numbering, Reaches
<1>5. Reasons'
  BY <1>1 DEF Parts, Reasons, WriteFits, Ended, Real, Piped, CtxDone
<1>. QED BY <1>1, <1>2, <1>3, <1>4, <1>5, ClientTypedSame, FlagsTypedSame,
            EndTypedSame, RequestTypedSame, PostTypedSame, UploaderTypedSame,
            PacketTypedSame, WaiterTypedSame, SlotsTypedSame, ReadTypedSame,
            MembershipSame, FlightSame, NoGapSame, EndingSame, CancelsSame DEF Parts

\* A step of Write that only moves on.
LEMMA WriteMovesKeeps ==
  ASSUME Parts, NEW call, WriteMoves(call), dial = "open", WriteFits(call),
         Bytes + call.left <= MaxBytes
  PROVE  Parts'
<1>1. wr' = call /\ WriteOnly /\ BatchTyped'
  BY DEF WriteMoves, Parts, BatchTyped
<1>2. Bytes' = Bytes
  BY DEF WriteMoves, WriteOnly, uploadVars, Bytes
<1>. QED BY <1>1, <1>2, WriteKeeps

\* A call that returns fits if its error does.
LEMMA ReturnedFits ==
  ASSUME NEW e \in Errors, e = "canceled" => Ended, Real(e)
  PROVE  /\ (e = "pipe" => Piped) => WriteFits(Returned(e))
         /\ e # "pipe" => ReadFits(Returned(e))
         /\ Returned(e).left = 0
<1> DEFINE r == IF e = "deadline" THEN "none" ELSE e
<1>1. Returned(e) = [Quiet EXCEPT !.result = r]
  BY DEF Returned
<1>2. "none" \in Errors /\ r \in Errors /\ (r = "canceled" => Ended)
      /\ ((e = "pipe" => Piped) => (r = "pipe" => Piped))
      /\ (e # "pipe" => r # "pipe") /\ Real(r) /\ Real("none")
  BY DEF Errors, Real
<1>3. 0 \in 0..MaxWrite
  OBVIOUS
<1> HIDE DEF r
<1>4. \A pcs : Returned(e) \in CallType(pcs)
  BY <1>1, <1>2, <1>3 DEF CallType, Quiet
<1>5. /\ Returned(e).pc = "idle" /\ Returned(e).left = 0
      /\ Returned(e).err = "none" /\ Returned(e).result = r
  BY <1>1 DEF Quiet
<1>. QED BY <1>2, <1>4, <1>5 DEF WriteFits, ReadFits

\* A call that begins fits.
LEMMA BegunFits ==
  ASSUME NEW call, \A pcs : call \in CallType(pcs), call.pc = "check",
         call.err = "none", call.result = "none"
  PROVE  WriteFits(call) /\ ReadFits(call)
  BY DEF WriteFits, ReadFits, Real

\* Write begins.
LEMMA WriteBegins ==
  ASSUME Parts, NEW n \in 1..MaxWrite, Write(n)
  PROVE  Parts'
<1> DEFINE call == [Quiet EXCEPT !.pc = "check", !.left = n]
<1>1. /\ call.pc = "check" /\ call.left = n
      /\ call.err = "none" /\ call.result = "none"
  BY DEF Quiet
<1>2. "none" \in Errors
  BY DEF Errors
<1>3. \A pcs : call \in CallType(pcs)
  <2>1. n \in 0..MaxWrite
    OBVIOUS
  <2>. QED BY <1>2, <2>1 DEF CallType, Quiet
<1>4. WriteMoves(call) /\ dial = "open" /\ Bytes + n <= MaxBytes
  BY DEF Write
<1> HIDE DEF call
<1>. QED BY <1>1, <1>3, <1>4, BegunFits, WriteMovesKeeps

\* It looks whether the connection has failed,
LEMMA WriteCheckKeeps ==
  ASSUME Parts, WriteCheck
  PROVE  Parts'
<1>1. CASE err # "none"
  <2>1. WriteFits(Returned(err)) /\ Returned(err).left = 0
    BY ReturnedFits DEF Parts, EndTyped, Reasons
  <2>. QED BY <1>1, <2>1, CallsFit, WriteMovesKeeps DEF WriteCheck, WriteFits,
                  CallType
<1>2. CASE err = "none"
  <2> DEFINE call == [wr EXCEPT !.pc = "context", !.changed = FALSE]
  <2>1. WriteFits(call) /\ call.left = wr.left
    BY CallsFit DEF WriteFits, CallType
  <2>2. WriteMoves(call) /\ dial = "open"
    BY <1>2, CallsFit DEF WriteCheck
  <2>. QED BY <2>1, <2>2, CallsFit, WriteMovesKeeps
<1>. QED BY <1>1, <1>2

\* A call that fails does so with an error that says what happened.
LEMMA WriteFailsKeeps ==
  ASSUME Parts, NEW e \in Errors, WriteFails(e), dial = "open",
         e = "canceled" => CtxDone(wr), e = "pipe" => Piped, Real(e)
  PROVE  Parts'
<1> DEFINE call == [wr EXCEPT !.pc = "failed", !.err = e]
<1>1. WriteFits(call) /\ call.left = wr.left
  BY CallsFit DEF WriteFits, CallType, CtxDone
<1>. QED BY <1>1, CallsFit, WriteMovesKeeps DEF WriteFails

\* and whether its context is done.
LEMMA WriteContextKeeps ==
  ASSUME Parts, WriteContext
  PROVE  Parts'
<1>1. dial = "open"
  BY CallsFit DEF WriteContext
<1>2. CASE CtxDone(wr)
  BY <1>1, <1>2, WriteFailsKeeps DEF WriteContext, Errors, Real
<1>3. CASE ~CtxDone(wr)
  <2> DEFINE call == [wr EXCEPT !.pc = "lock"]
  <2>1. WriteFits(call) /\ call.left = wr.left
    BY CallsFit DEF WriteFits, CallType
  <2>. QED BY <1>1, <1>3, <2>1, CallsFit, WriteMovesKeeps DEF WriteContext
<1>. QED BY <1>2, <1>3

\* The bytes that fit go into the batch, or the call waits.
LEMMA WriteLockKeeps ==
  ASSUME Parts, WriteLock
  PROVE  Parts'
<1>1. dial = "open"
  BY CallsFit DEF WriteLock
<1>2. CASE closed /\ WriteFails(closeErr)
  <2>1. closeErr \in Errors /\ (closeErr = "canceled" => cancelled)
        /\ (closeErr = "pipe" => Piped) /\ Real(closeErr)
    BY DEF Parts, EndTyped, Reasons
  <2>. QED BY <1>1, <1>2, <2>1, WriteFailsKeeps DEF CtxDone
<1>3. CASE ~closed /\ data < Max
  <2> DEFINE n == IF wr.left < Max - data THEN wr.left ELSE Max - data
  <2>1. /\ WriteOnly /\ data' = data + n /\ waiting' = {}
        /\ wr' = IF n = wr.left THEN Returned("none")
                 ELSE [wr EXCEPT !.pc = "context", !.left = @ - n]
    BY <1>3 DEF WriteLock
  <2>2. /\ wr.left \in Nat /\ wr.left <= MaxWrite
        /\ wr \in CallType({"context", "lock", "wait"})
    BY CallsFit DEF WriteFits, CallType
  <2>3. n \in Nat /\ n <= wr.left /\ data + n <= Max /\ data \in Nat
    BY <1>3, <2>2, CallsFit
  <2>4. BatchTyped'
    BY <2>1, <2>3 DEF BatchTyped
  <2>5. Bytes' = Bytes + n
    BY <2>1, <2>3 DEF Bytes, WriteOnly, uploadVars, Parts, PacketTyped
  <2> HIDE DEF n
  <2>6. WriteFits(wr') /\ wr'.left = wr.left - n
    <3>1. CASE n = wr.left
      <4>1. WriteFits(Returned("none")) /\ Returned("none").left = 0
        BY ReturnedFits DEF Errors, Real
      <4>2. wr' = Returned("none") /\ wr.left - n = 0
        BY <2>1, <2>2, <3>1
      <4>. QED BY <4>1, <4>2
    <3>2. CASE n # wr.left
      <4>1. wr' = [wr EXCEPT !.pc = "context", !.left = @ - n]
        BY <2>1, <3>2
      <4>2. wr.left - n \in 0..MaxWrite
        BY <2>2, <2>3
      <4>3. wr' \in CallType({"context", "lock", "wait"})
        BY <4>1, <4>2, <2>2 DEF CallType
      <4>4. /\ wr'.left = wr.left - n /\ wr'.pc = "context"
            /\ wr'.err = wr.err /\ wr'.result = wr.result
        BY <4>1, <2>2 DEF CallType
      <4>. QED BY <4>3, <4>4, CallsFit DEF WriteFits
    <3>. QED BY <3>1, <3>2
  <2>7. Bytes' + wr'.left <= MaxBytes
    BY <2>2, <2>3, <2>5, <2>6, CallsFit
  <2>. QED BY <1>1, <2>1, <2>4, <2>6, <2>7, WriteKeeps
<1>4. CASE /\ ~closed /\ data = Max /\ wr' = [wr EXCEPT !.pc = "wait"]
           /\ waiting' = waiting \cup {"writer"} /\ UNCHANGED data /\ WriteOnly
  <2>1. wr' \in CallType({"context", "lock", "wait"}) /\ wr'.left = wr.left
        /\ wr'.pc = "wait" /\ wr'.err = wr.err /\ wr'.result = wr.result
    BY <1>4, CallsFit DEF WriteFits, CallType
  <2>2. WriteFits(wr')
    BY <2>1, CallsFit DEF WriteFits, CallType
  <2>3. BatchTyped' /\ Bytes' = Bytes
    BY <1>4 DEF Parts, BatchTyped, Bytes, WriteOnly, uploadVars
  <2>. QED BY <1>1, <1>4, <2>1, <2>2, <2>3, CallsFit, WriteKeeps
<1>. QED BY <1>2, <1>3, <1>4 DEF WriteLock

\* A call that waits is woken, or its context is done.
LEMMA WriteWaitKeeps ==
  ASSUME Parts, WriteWait
  PROVE  Parts'
<1>1. dial = "open"
  BY CallsFit DEF WriteWait
<1>2. CASE WriteMoves([wr EXCEPT !.pc = "context"])
  <2> DEFINE call == [wr EXCEPT !.pc = "context"]
  <2>1. WriteFits(call) /\ call.left = wr.left
    BY CallsFit DEF WriteFits, CallType
  <2>. QED BY <1>1, <1>2, <2>1, CallsFit, WriteMovesKeeps
<1>3. CASE CtxDone(wr) /\ WriteFails("canceled")
  BY <1>1, <1>3, WriteFailsKeeps DEF Errors, Real
<1>. QED BY <1>2, <1>3 DEF WriteWait

\* Its deadline passes.
LEMMA WriteDeadlineKeeps ==
  ASSUME Parts, WriteDeadline
  PROVE  Parts'
<1>1. dial = "open"
  BY CallsFit DEF WriteDeadline
<1>. QED BY <1>1, WriteFailsKeeps DEF WriteDeadline, Errors, Real

\* The error of a call that failed is that of the connection, or its own.
LEMMA WriteFailedKeeps ==
  ASSUME Parts, WriteFailed
  PROVE  Parts'
<1> DEFINE e == First(err, wr.err)
<1>1. dial = "open" /\ wr.pc = "failed" /\ WriteFits(wr)
  BY CallsFit DEF WriteFailed
<1>2. e \in Errors /\ (e = "pipe" => Piped) /\ Real(e)
      /\ (e = "canceled" => Ended \/ CtxDone(wr))
  BY <1>1 DEF Parts, EndTyped, Reasons, WriteFits, CallType, First
<1>3. CASE e = "canceled" /\ wr.changed
  <2> DEFINE call == [wr EXCEPT !.pc = "retry"]
  <2>1. WriteFits(call) /\ call.left = wr.left
    BY CallsFit DEF WriteFits, CallType
  <2>. QED BY <1>1, <1>3, <2>1, CallsFit, WriteMovesKeeps DEF WriteFailed
<1>4. CASE ~(e = "canceled" /\ wr.changed)
  <2>1. WriteFits(Returned(e)) /\ Returned(e).left = 0
    BY <1>2, <1>4, ReturnedFits DEF CtxDone, Ended
  <2>2. wr.left \in Nat
    BY <1>1 DEF WriteFits, CallType
  <2>. QED BY <1>1, <1>4, <2>1, <2>2, CallsFit, WriteMovesKeeps DEF WriteFailed
<1>. QED BY <1>3, <1>4

\* A call whose deadline was changed tries again, unless the connection is cancelled.
LEMMA WriteRetryKeeps ==
  ASSUME Parts, WriteRetry
  PROVE  Parts'
<1>1. dial = "open" /\ WriteFits(wr)
  BY CallsFit DEF WriteRetry
<1>2. CASE cancelled
  <2>1. WriteFits(Returned("canceled")) /\ Returned("canceled").left = 0
    BY <1>2, ReturnedFits DEF Ended, Errors, Real
  <2>2. wr.left \in Nat
    BY <1>1 DEF WriteFits, CallType
  <2>. QED BY <1>1, <1>2, <2>1, <2>2, CallsFit, WriteMovesKeeps DEF WriteRetry
<1>3. CASE ~cancelled
  <2> DEFINE call == [wr EXCEPT !.pc = "check"]
  <2>1. WriteFits(call) /\ call.left = wr.left
    BY CallsFit DEF WriteFits, CallType
  <2>. QED BY <1>1, <1>3, <2>1, CallsFit, WriteMovesKeeps DEF WriteRetry
<1>. QED BY <1>2, <1>3

\* The deadline of a call of Write is set anew.
LEMMA SetWriteDeadlineKeeps ==
  ASSUME Parts, SetWriteDeadline
  PROVE  Parts'
<1>1. /\ WriteOnly /\ wr' = [wr EXCEPT !.changed = TRUE] /\ dial = "open"
      /\ UNCHANGED <<data, waiting>>
  BY CallsFit DEF SetWriteDeadline
<1>2. wr' \in CallType({"context", "lock", "wait"}) /\ wr'.left = wr.left
      /\ wr'.changed /\ wr'.err = wr.err /\ wr'.result = wr.result
  BY <1>1, CallsFit DEF WriteFits, CallType
<1>3. WriteFits(wr')
  BY <1>2, CallsFit DEF WriteFits, CallType, CtxDone
<1>4. BatchTyped' /\ Bytes' = Bytes
  BY <1>1 DEF Parts, BatchTyped, Bytes, WriteOnly, uploadVars
<1>. QED BY <1>1, <1>2, <1>3, <1>4, CallsFit, WriteKeeps

\* A step of Read that leaves a fitting call, and the connection as it was.
LEMMA ReadKeeps ==
  ASSUME Parts, ReadOnly, UNCHANGED <<err, closing>>, RequestTyped',
         dial = "open", ReadFits(rd')
  PROVE  Parts'
<1>1. UNCHANGED <<mode, actors, client, dial, registered, err, cancelled,
                  uploadCancelled, closing, monitor, data, closed, closeErr,
                  waiting, download, downloadDone, post, bodyClosed, uploader, seq,
                  payload, piece, waiter, wr>>
  BY DEF ReadOnly, clientVars, batchVars, uploadVars
<1>2. ReadTyped'
  BY DEF ReadFits, ReadTyped, CallType
<1>3. Birth'
  BY <1>1 DEF Parts, Birth
<1>4. Reasons'
  BY <1>1 DEF Parts, Reasons, ReadFits, Ended, Real, Piped, CtxDone
<1>. QED BY <1>1, <1>2, <1>3, <1>4, ClientTypedSame, FlagsTypedSame,
            EndTypedSame, BatchTypedSame, PostTypedSame, UploaderTypedSame,
            PacketTypedSame, WaiterTypedSame, SlotsTypedSame, WriteTypedSame,
            MembershipSame, FlightSame, NumberingSame, NoGapSame, EndingSame,
            CancelsSame DEF Parts

\* A step of Read that only moves on.
LEMMA ReadMovesKeeps ==
  ASSUME Parts, NEW call, ReadMoves(call), dial = "open", ReadFits(call)
  PROVE  Parts'
<1>1. /\ rd' = call /\ ReadOnly /\ UNCHANGED <<err, closing>>
      /\ UNCHANGED <<download, buffered>>
  BY DEF ReadMoves, ReadOnly
<1>2. RequestTyped'
  BY <1>1 DEF Parts, RequestTyped
<1>. QED BY <1>1, <1>2, ReadKeeps

\* Read begins.
LEMMA ReadBegins ==
  ASSUME Parts, Read
  PROVE  Parts'
<1> DEFINE call == [Quiet EXCEPT !.pc = "check"]
<1>1. call.pc = "check" /\ call.err = "none" /\ call.result = "none"
  BY DEF Quiet
<1>2. "none" \in Errors
  BY DEF Errors
<1>3. \A pcs : call \in CallType(pcs)
  <2>1. 0 \in 0..MaxWrite
    OBVIOUS
  <2>. QED BY <1>2, <2>1 DEF CallType, Quiet
<1>4. ReadMoves(call) /\ dial = "open"
  BY DEF Read
<1> HIDE DEF call
<1>. QED BY <1>1, <1>3, <1>4, BegunFits, ReadMovesKeeps

\* It looks whether the connection has failed.
LEMMA ReadCheckKeeps ==
  ASSUME Parts, ReadCheck
  PROVE  Parts'
<1>1. dial = "open" /\ ReadFits(rd)
  BY CallsFit DEF ReadCheck
<1>2. CASE err # "none"
  <2>1. ReadFits(Returned(err))
    BY ReturnedFits DEF Parts, EndTyped, Reasons
  <2>. QED BY <1>1, <1>2, <2>1, ReadMovesKeeps DEF ReadCheck
<1>3. CASE err = "none"
  <2> DEFINE call == [rd EXCEPT !.pc = "read", !.changed = FALSE]
  <2>1. ReadFits(call)
    BY <1>1 DEF ReadFits, CallType
  <2>. QED BY <1>1, <1>3, <2>1, ReadMovesKeeps DEF ReadCheck
<1>. QED BY <1>2, <1>3

\* A call that fails while it reads knows why.
LEMMA ReadFailsKeeps ==
  ASSUME Parts, NEW e \in Errors, ReadFails(e), dial = "open",
         e = "canceled" => CtxDone(rd) \/ err # "none", e # "pipe", Real(e)
  PROVE  Parts'
<1> DEFINE call == [rd EXCEPT !.pc = "failed", !.err = e]
<1>1. ReadFits(call)
  BY CallsFit DEF ReadFits, CallType, CtxDone
<1>. QED BY <1>1, ReadMovesKeeps DEF ReadFails

\* Bytes, or the end of the download, or the context.
LEMMA readContextKeeps ==
  ASSUME Parts, readContext
  PROVE  Parts'
<1>1. dial = "open"
  BY CallsFit DEF readContext
<1>2. CASE /\ buffered > 0
           /\ \E n \in 1..buffered : buffered' = buffered - n
           /\ rd' = Returned("none") /\ UNCHANGED <<err, closing>> /\ ReadOnly
  <2>1. ReadFits(rd')
    BY <1>2, ReturnedFits DEF Errors, Real
  <2>2. buffered \in 0..MaxBuffered /\ buffered' \in 0..buffered
    BY <1>2 DEF Parts, RequestTyped
  <2>3. RequestTyped'
    BY <1>2, <2>2 DEF Parts, RequestTyped, ReadOnly
  <2>. QED BY <1>1, <1>2, <2>1, <2>3, ReadKeeps
<1>3. CASE buffered = 0 /\ download # "open" /\ ReadFails(download)
  <2>1. /\ download \in Errors /\ download # "pipe" /\ Real(download)
        /\ download = "canceled" => cancelled \/ err # "none"
    BY <1>1, <1>3 DEF Parts, RequestTyped, Birth, Cancels, Errors, Real
  <2>. QED BY <1>1, <1>3, <2>1, ReadFailsKeeps DEF CtxDone
<1>4. CASE CtxDone(rd) /\ ReadFails("canceled")
  BY <1>1, <1>4, ReadFailsKeeps DEF Errors, Real
<1>. QED BY <1>2, <1>3, <1>4 DEF readContext

\* Its deadline passes.
LEMMA ReadDeadlineKeeps ==
  ASSUME Parts, ReadDeadline
  PROVE  Parts'
<1>1. dial = "open"
  BY CallsFit DEF ReadDeadline
<1>. QED BY <1>1, ReadFailsKeeps DEF ReadDeadline, Errors, Real

\* The call returns a timeout, and closes the connection on any other error.
LEMMA ReadEndsKeeps ==
  ASSUME Parts, NEW e \in Errors, ReadEnds(e), dial = "open",
         e = "canceled" => Ended, e # "pipe", Real(e)
  PROVE  Parts'
<1>1. CASE e = "deadline"
  BY <1>1, ReturnedFits, ReadMovesKeeps DEF ReadEnds
<1>2. CASE e # "deadline"
  <2> DEFINE call == [rd EXCEPT !.pc = "close", !.err = e]
  <2>1. ReadFits(call)
    BY CallsFit DEF ReadFits, CallType
  <2>. QED BY <1>2, <2>1, ReadMovesKeeps DEF ReadEnds
<1>. QED BY <1>1, <1>2

\* The error of the connection comes before its own,
LEMMA ReadFailedKeeps ==
  ASSUME Parts, ReadFailed
  PROVE  Parts'
<1> DEFINE e == First(err, rd.err)
<1>1. dial = "open" /\ rd.pc = "failed" /\ ReadFits(rd)
  BY CallsFit DEF ReadFailed
<1>2. e \in Errors /\ e # "pipe" /\ (e = "canceled" => Ended \/ CtxDone(rd))
      /\ Real(e)
  BY <1>1 DEF Parts, EndTyped, Reasons, ReadFits, CallType, First
<1>3. CASE e = "canceled" /\ rd.changed
  <2> DEFINE call == [rd EXCEPT !.pc = "retry"]
  <2>1. ReadFits(call)
    BY <1>1 DEF ReadFits, CallType
  <2>. QED BY <1>1, <1>3, <2>1, ReadMovesKeeps DEF ReadFailed
<1>4. CASE ~(e = "canceled" /\ rd.changed)
  <2>1. ReadEnds(e) /\ (e = "canceled" => Ended)
    BY <1>2, <1>4 DEF ReadFailed, CtxDone, Ended
  <2>. QED BY <1>1, <1>2, <2>1, ReadEndsKeeps
<1>. QED BY <1>3, <1>4

\* and a call whose deadline was changed tries again.
LEMMA ReadRetryKeeps ==
  ASSUME Parts, ReadRetry
  PROVE  Parts'
<1>1. dial = "open" /\ ReadFits(rd)
  BY CallsFit DEF ReadRetry
<1>2. CASE cancelled
  BY <1>1, <1>2, ReadEndsKeeps DEF ReadRetry, Ended, Errors, Real
<1>3. CASE ~cancelled
  <2> DEFINE call == [rd EXCEPT !.pc = "check"]
  <2>1. ReadFits(call)
    BY <1>1 DEF ReadFits, CallType
  <2>. QED BY <1>1, <1>3, <2>1, ReadMovesKeeps DEF ReadRetry
<1>. QED BY <1>2, <1>3

\* A call that failed publishes its error and begins the Close,
LEMMA ReadClosesKeeps ==
  ASSUME Parts, ReadCloses
  PROVE  Parts'
<1>1. UNCHANGED <<mode, actors, client, dial, registered, cancelled,
                  uploadCancelled, monitor, data, closed, closeErr, waiting,
                  download, downloadDone, buffered, post, bodyClosed, uploader, seq,
                  payload, piece, waiter, wr>>
  BY DEF ReadCloses, ReadOnly, clientVars, batchVars, uploadVars
<1>2. /\ dial = "open" /\ rd.pc = "close" /\ ReadFits(rd)
      /\ err' = First(err, rd.err)
      /\ closing' = IF closing = "no" THEN "setError" ELSE closing
      /\ rd' = [rd EXCEPT !.pc = "join"]
  BY CallsFit DEF ReadCloses, setError, BeginClose
<1>3. /\ err' \in Errors /\ err' # "pipe" /\ (err' = "canceled" => Ended)
      /\ Real(err') /\ (err # "none" => err' # "none") /\ EndTyped'
  BY <1>1, <1>2 DEF Parts, EndTyped, Reasons, ReadFits, CallType, First
<1>4. ReadFits(rd')
  BY <1>2 DEF ReadFits, CallType
<1>5. ReadTyped'
  BY <1>4 DEF ReadFits, ReadTyped, CallType
<1>6. Birth' /\ Membership'
  BY <1>1, <1>2 DEF Parts, Birth, Membership
<1>7. Ending' /\ Cancels'
  BY <1>1, <1>2, <1>3 DEF Parts, Ending, UploadDone, Cancels, Failing
<1>8. Reasons'
  BY <1>1, <1>2, <1>3, <1>4 DEF Parts, Reasons, ReadFits, Ended, Real, Piped,
                                CtxDone
<1>. QED BY <1>1, <1>3, <1>5, <1>6, <1>7, <1>8, ClientTypedSame, FlagsTypedSame,
            BatchTypedSame, RequestTypedSame, PostTypedSame, UploaderTypedSame,
            PacketTypedSame, WaiterTypedSame, SlotsTypedSame, WriteTypedSame,
            FlightSame, NumberingSame, NoGapSame DEF Parts

\* and returns when that is done.
LEMMA ReadJoinKeeps ==
  ASSUME Parts, ReadJoin
  PROVE  Parts'
<1>1. dial = "open" /\ ReadFits(rd) /\ rd.pc = "join"
  BY CallsFit DEF ReadJoin
<1>2. ReadFits(Returned(rd.err))
  BY <1>1, ReturnedFits DEF ReadFits, CallType
<1>. QED BY <1>1, <1>2, ReadMovesKeeps DEF ReadJoin

\* The deadline of a call of Read is set anew.
LEMMA SetReadDeadlineKeeps ==
  ASSUME Parts, SetReadDeadline
  PROVE  Parts'
<1> DEFINE call == [rd EXCEPT !.changed = TRUE]
<1>1. ReadFits(call)
  BY CallsFit DEF ReadFits, CallType, CtxDone
<1>. QED BY <1>1, CallsFit, ReadMovesKeeps DEF SetReadDeadline

-----------------------------------------------------------------------------
(* The invariant and the properties.                                       *)

\* The initial states satisfy IInv.
LEMMA InitIInv ==
  ASSUME Init
  PROVE  IInv
<1>1. /\ client = "open" /\ dial = "none" /\ registered = FALSE
      /\ err = "none" /\ cancelled = FALSE /\ uploadCancelled = FALSE
      /\ closing = "no" /\ monitor = "none"
      /\ data = 0 /\ closed = FALSE /\ closeErr = "none" /\ waiting = {}
      /\ download = "none" /\ downloadDone = FALSE /\ buffered = 0
      /\ post = [i \in Posts |-> "none"] /\ bodyClosed = FALSE
      /\ uploader = "none" /\ seq = 0 /\ payload = <<0, 0>>
      /\ piece = [i \in Posts |-> <<0, 0>>]
      /\ waiter = [i \in Posts |-> "none"]
      /\ wr = Quiet /\ rd = Quiet
  BY DEF Init
<1>2. ClientTyped
  BY <1>1 DEF Init, ClientTyped
<1>3. /\ FlagsTyped /\ EndTyped /\ BatchTyped /\ RequestTyped /\ PostTyped
      /\ UploaderTyped /\ PacketTyped /\ WaiterTyped
  <2>1. FlagsTyped
    BY <1>1 DEF FlagsTyped
  <2>2. BatchTyped /\ RequestTyped
    BY <1>1 DEF BatchTyped, RequestTyped
  <2>3. EndTyped
    BY <1>1 DEF EndTyped, Errors
  <2>4. PostTyped /\ UploaderTyped /\ WaiterTyped
    BY <1>1 DEF PostTyped, UploaderTyped, WaiterTyped
  <2>5. PacketTyped
    BY <1>1 DEF PacketTyped
  <2>. QED BY <2>1, <2>2, <2>3, <2>4, <2>5
<1>4. WriteTyped /\ ReadTyped
  <2>1. "none" \in Errors
    BY DEF Errors
  <2>. QED BY <1>1, <2>1 DEF WriteTyped, ReadTyped, CallType, Quiet
<1>5. InFlight = 0 /\ SlotsTyped
  BY <1>1, NoneFlying DEF SlotsTyped
<1>6. Birth /\ Membership /\ Ending /\ Cancels /\ Reasons
  <2>1. Birth
    BY <1>1 DEF Birth
  <2>2. Membership /\ Ending
    BY <1>1 DEF Membership, Ending
  <2>3. Cancels /\ Reasons
    <3>1. mode = "stream-up" => post[0] = "none" /\ waiter[0] = "none"
      BY <1>1 DEF Posts
    <3>2. \A i \in Posts : waiter[i] = "none"
      BY <1>1
    <3>3. Cancels
      BY <1>1, <3>1, <3>2 DEF Cancels, Failing
    <3>4. Reasons
      BY <1>1 DEF Reasons, Ended, Real, Piped, CtxDone, Quiet
    <3>. QED BY <3>3, <3>4
  <2>. QED BY <2>1, <2>2, <2>3
<1>7. Flight
  BY <1>1, <1>2, <1>5 DEF Flight, PostDone, Posts
<1>8. Numbering /\ NoGap
  <2>1. Bytes = 0 /\ wr.left = 0
    BY <1>1 DEF Bytes, Quiet
  <2>. QED BY <1>1, <2>1 DEF Numbering, Reaches, NoGap
<1>. QED BY <1>2, <1>3, <1>4, <1>5, <1>6, <1>7, <1>8, IInvParts DEF Parts

\* Every step preserves the parts of IInv: one lemma for each action.
LEMMA StepParts ==
  ASSUME Parts, [Next]_vars
  PROVE  Parts'
<1>1. ASSUME UNCHANGED vars
      PROVE  Parts'
  BY <1>1, ClientTypedSame, FlagsTypedSame, EndTypedSame, BatchTypedSame,
     RequestTypedSame, PostTypedSame, UploaderTypedSame, PacketTypedSame,
     WaiterTypedSame, SlotsTypedSame, WriteTypedSame, ReadTypedSame, BirthSame,
     MembershipSame, FlightSame, NumberingSame, NoGapSame, EndingSame, CancelsSame,
     ReasonsSame
  DEF Parts, vars, clientVars, endVars, batchVars, requestVars, uploadVars
<1>2. ASSUME DialContext \/ CloseClient \/ Shutdown \/ Close
      PROVE  Parts'
  BY <1>2, DialContextKeeps, CloseClientKeeps, ShutdownKeeps, CloseKeeps
<1>3. ASSUME CloseStep
      PROVE  Parts'
  BY <1>3, CloseSetErrorKeeps, CloseCancelKeeps, CloseWriterKeeps,
     ClosePostKeeps,
     CloseReaderKeeps, RemoveKeeps DEF CloseStep
<1>4. ASSUME Monitor
      PROVE  Parts'
  BY <1>4, MonitorCancelKeeps, StopCloseKeeps, StopCancelKeeps, StopPostKeeps
  DEF Monitor
<1>5. ASSUME Uploader
      PROVE  Parts'
  <2>1. ASSUME startPacket
        PROVE  Parts'
    BY <2>1, PostedKeeps, startFailsKeeps DEF startPacket
  <2>. QED BY <1>5, <2>1, TopKeeps, DrainKeeps, DrainWaitKeeps, DrainWokenKeeps,
              DrainEndKeeps, TakeSlotKeeps, UploaderFailsKeeps, UploadsJoinedKeeps
       DEF Uploader
<1>6. ASSUME NEW i \in Posts, WaitEnds(i) \/ Waiter(i)
      PROVE  Parts'
  BY <1>6, WaitEndsKeeps, WaitReturnsKeeps, WaiterFailsKeeps DEF Waiter
<1>7. ASSUME WriteStep \/ WriteDeadline \/ SetWriteDeadline
      PROVE  Parts'
  BY <1>7, WriteCheckKeeps, WriteContextKeeps, WriteLockKeeps, WriteWaitKeeps,
     WriteFailedKeeps, WriteRetryKeeps, WriteDeadlineKeeps, SetWriteDeadlineKeeps
  DEF WriteStep
<1>8. ASSUME Read \/ ReadStep \/ ReadDeadline \/ SetReadDeadline
      PROVE  Parts'
  BY <1>8, ReadBegins, ReadCheckKeeps, readContextKeeps, ReadFailedKeeps,
     ReadRetryKeeps, ReadClosesKeeps, ReadJoinKeeps, ReadDeadlineKeeps,
     SetReadDeadlineKeeps
  DEF ReadStep
<1>9. ASSUME NEW n \in 1..MaxWrite, Write(n)
      PROVE  Parts'
  BY <1>9, WriteBegins
<1>10. ASSUME NEW e \in {"EOF", "failed"}, NetPost(e)
       PROVE  Parts'
  BY <1>10, NetPostKeeps
<1>11. ASSUME NEW e \in {"EOF", "download"}, NetEnd(e)
       PROVE  Parts'
  BY <1>11, NetEndKeeps
<1>12. ASSUME BodySent \/ CancelDial \/ NetBytes \/ CloseBody \/ DownloadDone
       PROVE  Parts'
  BY <1>12, BodySentKeeps, CancelDialKeeps, NetBytesKeeps, CloseBodyKeeps,
     DownloadDoneKeeps
<1>. QED BY <1>1, <1>2, <1>3, <1>4, <1>5, <1>6, <1>7, <1>8, <1>9, <1>10, <1>11,
            <1>12 DEF Next

\* IInv holds in every state that a connection reaches: however the goroutines of
\* Dial, the uploader, the waiters, the callers, the peer and Close interleave.
THEOREM Invariance == Spec => []IInv
<1>1. IInv /\ [Next]_vars => IInv'
  <2>1. ASSUME Parts, [Next]_vars
        PROVE  IInv'
    <3>1. Parts'
      BY <2>1, StepParts
    <3>2. IInv' <=> Parts'
      BY IInvParts, PTL
    <3>. QED BY <3>1, <3>2
  <2>. QED BY <2>1, IInvParts
<1>. QED BY <1>1, InitIInv, PTL DEF Spec

\* Every variable of a connection stays within its type, the batch within its size,
\* and no more packets are in flight than ScMaxBufferedPosts.
THEOREM TypeCorrect == Spec => []TypeOK
<1>1. IInv => TypeOK
  BY DEF IInv
<1>. QED BY <1>1, Invariance, PTL

\* When Close has returned, both requests, the uploader and every goroutine that
\* waited for a packet are gone, and an engine is destroyed only after that.
THEOREM CloseLeaves == Spec => []CloseLeavesNothing
<1>1. IInv => CloseLeavesNothing
  <2>. SUFFICES ASSUME IInv
                PROVE  CloseLeavesNothing
    OBVIOUS
  <2>1. Parts
    BY IInvParts
  <2>2. /\ [mode |-> mode, actors |-> actors] \in Scenarios
        /\ mode \in Mode /\ 0 \in Posts
    BY <2>1 DEF Parts, ClientTyped, Posts
  <2>3. ASSUME closing = "done"
        PROVE  /\ downloadDone /\ UploadDone /\ uploader = "gone"
               /\ \A i \in Posts :
                     post[i] # "open" /\ waiter[i] \in {"none", "gone"}
    <3>1. downloadDone /\ UploadDone
      BY <2>1, <2>3 DEF Parts, Ending
    <3>2. CASE mode = "packet-up"
      BY <2>1, <3>1, <3>2 DEF Parts, Flight, UploadDone
    <3>3. CASE mode = "stream-one"
      BY <2>1, <3>1, <3>3 DEF Parts, Flight, Ending
    <3>4. CASE mode = "stream-up"
      BY <2>1, <2>2, <3>1, <3>4 DEF Parts, Flight, UploadDone, PostDone
    <3>. QED BY <2>2, <3>1, <3>2, <3>3, <3>4
  <2>4. client = "done" => dial # "open" \/ closing = "done"
    BY <2>1 DEF Parts, Membership
  <2>. QED BY <2>3, <2>4 DEF CloseLeavesNothing
<1>. QED BY <1>1, Invariance, PTL

\* The packets of packet-up carry the bytes that were written, in the order of
\* their numbers and without a gap, whichever of them fail or are cancelled.
THEOREM Gapless == Spec => []NoGap
<1>1. IInv => NoGap
  BY DEF IInv
<1>. QED BY <1>1, Invariance, PTL

\* A call reports a cancellation only when somebody cancelled, and an end or a failure
\* of the download only when it had it; Read never reports that the batch is closed,
\* and Write reports only that when Piped says why: in stream-one also after a failed
\* download, in the other modes not, unless the post has ended as well.
THEOREM ErrorsExplained == Spec => []ErrorsTellWhy
<1>1. IInv => ErrorsTellWhy
  BY DEF IInv, ErrorsTellWhy, Reasons, Ended, Real
<1>. QED BY <1>1, Invariance, PTL

=============================================================================

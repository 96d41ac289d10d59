--------------------------- MODULE MysqlConnProofs ---------------------------
(***************************************************************************)
(* Proofs about MysqlConn, for every set of contexts: the types, and what  *)
(* is true of the watcher, the packet stream and the answers, from one     *)
(* inductive invariant.                                                    *)
(***************************************************************************)
EXTENDS MysqlConn, TLAPS

-----------------------------------------------------------------------------
(* The inductive invariant.                                                 *)

Handshaking == {"request", "tls", "greeting", "login", "auth", "switch", "switched",
                "askkey", "key", "secret", "authok"}

\* Which operation the caller's position belongs to, and when it holds rows.
Phase ==
    /\ op = "idle" => pc \in {"new", "free", "discard", "gone"}
    /\ pc \in {"new", "free", "discard"} => op = "idle"
    /\ pc \in {"new", "discard"} => rows = "none"
    /\ pc \in Handshaking => op = "connect"
    /\ pc \in {"setup", "again", "abandon"} => op \in Connecting
    /\ pc = "ready" => op \in WithContext
    /\ pc = "write" => op \in Setup \cup WithContext \cup {"commit"}
    /\ pc = "finish" => op \in Connecting \cup WithContext \cup {"close"}
    /\ pc = "check" => op = "prepare"
    /\ pc = "stmtclose" => op \in {"prepare", "closestmt"}
    /\ pc = "drain" => op = "close"
    /\ pc = "row" => op = "next"
    /\ op \in {"next", "nextset", "close"} => rows # "none"
    /\ op = "nextset" => attached
    /\ op \in Connecting \cup Fetching \cup {"commit"} => rows = "none"

\* The context the watcher has been given, whether it has taken it or not.
Watched == IF inbox # None THEN inbox ELSE wctx

Resting == {"idle", "gone"}

\* The watcher has a context only while mc.watching says so; a cancellation leaves
\* mc.watching set, so that no context follows it.
WatcherFollows ==
    /\ inbox # None => watching /\ wpc \in Resting
    /\ wpc \notin Resting => watching /\ inbox = None /\ wctx # None
    /\ wpc \in {"closech", "shut"} => closed = "watcher"
    /\ wpc \in {"swap", "closech", "shut"} => canceled # None
    /\ closed = "watcher" => canceled # None
    /\ canceled # None => watching /\ inbox = None /\ wpc \notin {"watching", "cancel"}
    /\ wpc = "gone" => closech \/ pc \in {"new", "gone"}
    /\ pc = "new" => closed = "no" /\ ~watching /\ wpc = "gone" /\ canceled = None

\* While the connection is open, the context that is watched is that of the operation under
\* way, or of the rows that an earlier one has handed out.
WatchedInUse ==
    watching /\ closed = "no" =>
        /\ Watched # None
        /\ \/ /\ op \in Connecting \cup WithContext /\ pc \notin {"check", "stmtclose"}
              /\ Watched = ctx
           \/ /\ op \in {"idle", "next", "nextset"} \/ (op = "close" /\ pc = "finish")
              /\ rows # "none" /\ Watched = owner

\* An operation under way is watched, until finish or the close; the watcher of an open
\* connection has the context or waits for it, and whoever closes goes on to the end.
InTouch ==
    /\ closed = "no" /\ ctx \in Ctx /\ op \in Connecting \cup WithContext
       /\ pc \notin {"check", "stmtclose", "gone"} => watching
    /\ closed = "no" /\ watching =>
        \/ inbox # None /\ wpc = "idle"
        \/ inbox = None /\ wpc \in {"watching", "cancel", "swap"}
    /\ closed # "no" => closech \/ wpc = "closech"
    /\ closech => socket = "shut" \/ wpc = "shut"

\* What was sent when an operation that may be repeated comes to its end.
RetryInv ==
    op \in WithContext =>
        /\ pc = "write" => heard \in {"nothing", "data", "part"}
        /\ pc = "upload" => heard = "upload"
        /\ answer = "bad" => pc = "finish" /\ heard \notin {"whole", "executed"}

\* There is something to read of the rows in the caller's hands.
Pending == rows # "none" /\ attached /\ (~done \/ more)

\* The caller waits for no answer to a command.
Settled == pc \notin (Waiting \ (Handshaking \cup {"row"})) \cup {"upload", "confused"}

\* On an open connection the caller that waits for nothing has read everything, but for the
\* rows it holds; only a command sent over such rows meets packets of an older one.
StreamInv ==
    closed = "no" /\ trouble = {} =>
        /\ Settled /\ ~Pending => reply = "none"
        /\ stale => rows # "none" /\ pc \in {"ok", "prepared", "header", "confused"}
        /\ pc = "confused" => rows # "none"

IInv ==
    TypeOK /\ Phase /\ WatcherFollows /\ WatchedInUse /\ InTouch /\ RetryInv /\ StreamInv
    /\ CancelIsReported

-----------------------------------------------------------------------------
(* The types.                                                               *)

\* An operation that ends leaves the caller where its kind ends.
LEMMA ReturnTyped ==
  ASSUME CallTypeOK, NEW a \in Answers, Return(a)
  PROVE  CallTypeOK'
  BY DEF CallTypeOK, Operations, Return, Calling, Idle, Connecting, Setup, WithContext,
         WithoutContext

\* The next command of an operation is one of the same kind.
LEMMA CompleteTyped ==
  ASSUME CallTypeOK, Complete
  PROVE  CallTypeOK'
<1>1. CASE op \in Setup
  BY <1>1 DEF CallTypeOK, Complete, Calling, Setup
<1>2. CASE op = "isolation"
  BY <1>2 DEF CallTypeOK, Complete, Calling, Operations, WithContext, Setup
<1>3. CASE op \notin Setup \cup {"isolation"}
  BY <1>3, ReturnTyped DEF Complete, Answers
<1> QED BY <1>1, <1>2, <1>3

\* A connection that is closed keeps the owner of the close, and nothing more to send.
LEMMA CloseTyped ==
  ASSUME LinkTypeOK, WireTypeOK, Close
  PROVE  LinkTypeOK' /\ WireTypeOK'
  BY DEF LinkTypeOK, WireTypeOK, Replies, Close, Cleanup, Silence, link, wire

\* What an error does to the rows keeps them of their kind.
LEMMA RowsTyped ==
  ASSUME CursorTypeOK, RowsAfterError
  PROVE  CursorTypeOK'
  BY DEF CursorTypeOK, RowsAfterError, GiveUpRows, cursor

\* The errors of a closed connection and of a failed write are among the answers.
LEMMA ErrorTyped ==
  ASSUME NEW e \in Answers
  PROVE  ClosedError \in Answers /\ WriteError(e) \in Answers
  BY DEF ClosedError, WriteError, MarkBadConn, Answers

\* Rows are handed out with the operation's answer.
LEMMA HandOutTyped ==
  ASSUME CallTypeOK, CursorTypeOK, HeardTypeOK, NEW columns \in BOOLEAN, HandOut(columns),
         UNCHANGED <<more, trouble>>
  PROVE  CallTypeOK' /\ CursorTypeOK' /\ HeardTypeOK'
  BY DEF HandOut, CallTypeOK, CursorTypeOK, HeardTypeOK, Operations, Answers, Outcomes, Idle

\* However a result ends, for rows, for Exec or for a command of the setup.
LEMMA ResultTyped ==
  ASSUME CallTypeOK, CursorTypeOK, WireTypeOK, HeardTypeOK, NEW m \in BOOLEAN, ResultEnds(m),
         UNCHANGED <<trouble, stale>>
  PROVE  CallTypeOK' /\ CursorTypeOK' /\ WireTypeOK' /\ HeardTypeOK'
<1>1. more' \in BOOLEAN /\ WireTypeOK'
  BY DEF ResultEnds, AfterResult, WireTypeOK, Replies
<1>2. CASE HandOut(FALSE)
  BY <1>1, <1>2 DEF HandOut, CallTypeOK, CursorTypeOK, HeardTypeOK, Operations, Answers,
                    Outcomes, Idle
<1>3. CASE ~HandOut(FALSE)
  <2>1. HeardTypeOK' /\ NextResult(m)
    BY <1>3 DEF ResultEnds, Hear, HeardTypeOK, Outcomes
  <2>2. CallTypeOK'
    BY <2>1, ReturnTyped, CompleteTyped DEF NextResult, CallTypeOK, Answers, Calling, Waiting
  <2>3. CursorTypeOK'
    BY <1>1, <2>1 DEF NextResult, CursorTypeOK, GiveUpRows, cursor
  <2> QED BY <1>1, <2>1, <2>2, <2>3
<1> QED BY <1>2, <1>3

\* A part of the state that a step leaves alone keeps its type.
LEMMA Undisturbed ==
  ASSUME TypeOK
  PROVE  /\ UNCHANGED call => CallTypeOK'
         /\ UNCHANGED <<watch, cancelled>> => WatchTypeOK'
         /\ UNCHANGED link => LinkTypeOK'
         /\ UNCHANGED wire => WireTypeOK'
         /\ UNCHANGED <<more, cursor>> => CursorTypeOK'
         /\ UNCHANGED <<heard, trouble>> => HeardTypeOK'
<1> USE DEF TypeOK
<1>1. UNCHANGED call => CallTypeOK'
  BY DEF CallTypeOK, call
<1>2. UNCHANGED <<watch, cancelled>> => WatchTypeOK'
  BY DEF WatchTypeOK, watch
<1>3. UNCHANGED link => LinkTypeOK'
  BY DEF LinkTypeOK, link
<1>4. UNCHANGED wire => WireTypeOK'
  BY DEF WireTypeOK, wire
<1>5. UNCHANGED <<more, cursor>> => CursorTypeOK'
  BY DEF CursorTypeOK, cursor
<1>6. UNCHANGED <<heard, trouble>> => HeardTypeOK'
  BY DEF HeardTypeOK
<1> QED BY <1>1, <1>2, <1>3, <1>4, <1>5, <1>6

\* Every step keeps the types.
LEMMA TypePreserved ==
  ASSUME IInv, [Next]_vars
  PROVE  TypeOK'
<1> USE ConstantsAssumption DEF IInv, TypeOK, call, watch, link, wire, stream, cursor
<1>1. CASE ReadHandshakePacket
  <2>1. CallTypeOK'
    BY <1>1 DEF ReadHandshakePacket, Shake, CallTypeOK, Calling, Waiting, Writing, Idle
  <2> QED BY <1>1, <2>1, Undisturbed DEF ReadHandshakePacket, Shake
<1>2. CASE WriteHandshakeResponsePacket
  <2>1. CallTypeOK'
    BY <1>2 DEF WriteHandshakeResponsePacket, Shake, CallTypeOK, Calling, Waiting, Writing,
          Idle
  <2> QED BY <1>2, <2>1, Undisturbed DEF WriteHandshakeResponsePacket, Shake
<1>3. CASE HandleAuthResult
  <2>1. CallTypeOK'
    BY <1>3 DEF HandleAuthResult, Shake, AfterPlugin, CallTypeOK, Calling, Waiting, Writing,
          Idle
  <2> QED BY <1>3, <2>1, Undisturbed DEF HandleAuthResult, Shake
<1>4. CASE WriteAuthSwitchPacket
  <2>1. CallTypeOK'
    BY <1>4 DEF WriteAuthSwitchPacket, Shake, CallTypeOK, Calling, Waiting, Writing, Idle
  <2> QED BY <1>4, <2>1, Undisturbed DEF WriteAuthSwitchPacket, Shake
<1>5. CASE HandshakeFails
  <2>1. CallTypeOK'
    BY <1>5, ReturnTyped DEF HandshakeFails, Answers
  <2>2. LinkTypeOK' /\ WireTypeOK'
    BY <1>5, CloseTyped, Undisturbed DEF HandshakeFails
  <2> QED BY <1>5, <2>1, <2>2, Undisturbed DEF HandshakeFails
<1>6. CASE WriteFrame
  <2>1. HeardTypeOK'
    BY <1>6 DEF WriteFrame, HeardTypeOK, Outcomes
  <2> QED BY <1>6, <2>1, Undisturbed DEF WriteFrame
<1>7. CASE WriteCommandLongData
  <2>1. HeardTypeOK'
    BY <1>7 DEF WriteCommandLongData, HeardTypeOK, Outcomes
  <2> QED BY <1>7, <2>1, Undisturbed DEF WriteCommandLongData
<1>8. CASE WriteCommandPacket
  <2>1. CallTypeOK'
    BY <1>8 DEF WriteCommandPacket, Send, FirstReply, CallTypeOK, Calling, Waiting, Writing,
          Idle
  <2>2. WireTypeOK'
    BY <1>8 DEF WriteCommandPacket, Send, FirstReply, WireTypeOK, Replies
  <2>3. HeardTypeOK'
    BY <1>8 DEF WriteCommandPacket, Send, Hear, HeardTypeOK, Outcomes
  <2> QED BY <1>8, <2>1, <2>2, <2>3, Undisturbed DEF WriteCommandPacket, Send
<1>9. CASE WriteExecutePacket
  <2>1. CallTypeOK'
    BY <1>9 DEF WriteExecutePacket, Send, FirstReply, CallTypeOK, Calling, Waiting, Writing,
          Idle
  <2>2. WireTypeOK'
    BY <1>9 DEF WriteExecutePacket, Send, FirstReply, WireTypeOK, Replies
  <2>3. HeardTypeOK'
    BY <1>9 DEF WriteExecutePacket, Send, Hear, HeardTypeOK, Outcomes
  <2> QED BY <1>9, <2>1, <2>2, <2>3, Undisturbed DEF WriteExecutePacket, Send
<1>10. CASE WriteRefused
  <2>1. CallTypeOK'
    BY <1>10, ReturnTyped, ErrorTyped DEF WriteRefused, Answers
  <2> QED BY <1>10, <2>1, Undisturbed DEF WriteRefused
<1>11. CASE WriteFails
  <2>1. CallTypeOK'
    BY <1>11, ReturnTyped, ErrorTyped DEF WriteFails, Answers
  <2>2. LinkTypeOK' /\ WireTypeOK'
    BY <1>11, CloseTyped DEF WriteFails
  <2>3. CursorTypeOK'
    BY <1>11, RowsTyped DEF WriteFails
  <2>4. HeardTypeOK'
    BY <1>11 DEF WriteFails, Hear, HeardTypeOK, Outcomes
  <2> QED BY <1>11, <2>1, <2>2, <2>3, <2>4, Undisturbed DEF WriteFails
<1>12. CASE ReadOK
  <2>1. CallTypeOK' /\ CursorTypeOK' /\ WireTypeOK' /\ HeardTypeOK'
    BY <1>12, ResultTyped DEF ReadOK
  <2> QED BY <1>12, <2>1, Undisturbed DEF ReadOK
<1>13. CASE ReadColumnCount
  <2>1. CallTypeOK'
    BY <1>13 DEF ReadColumnCount, CallTypeOK, Calling, Waiting, Writing, Idle
  <2>2. WireTypeOK'
    BY <1>13 DEF ReadColumnCount, WireTypeOK, Replies
  <2> QED BY <1>13, <2>1, <2>2, Undisturbed DEF ReadColumnCount
<1>14. CASE ReadColumns
  <2>1. WireTypeOK'
    BY <1>14 DEF ReadColumns, WireTypeOK, Replies
  <2>2. CallTypeOK'
    BY <1>14, HandOutTyped, ReturnTyped DEF ReadColumns, CallTypeOK, Answers, Calling,
          Waiting, Writing, Idle
  <2>3. HeardTypeOK'
    BY <1>14, HandOutTyped, Undisturbed DEF ReadColumns
  <2>4. CursorTypeOK'
    BY <1>14, HandOutTyped, Undisturbed DEF ReadColumns, CursorTypeOK
  <2> QED BY <1>14, <2>1, <2>2, <2>3, <2>4, Undisturbed DEF ReadColumns
<1>15. CASE SkipRows
  <2>1. CallTypeOK' /\ CursorTypeOK' /\ WireTypeOK' /\ HeardTypeOK'
    BY <1>15, ResultTyped, ReturnTyped, Undisturbed DEF SkipRows, AfterResult, WireTypeOK,
          CursorTypeOK, Replies, Answers, cursor
  <2> QED BY <1>15, <2>1, Undisturbed DEF SkipRows
<1>16. CASE ReadPingOK
  <2>1. CallTypeOK'
    BY <1>16, CompleteTyped DEF ReadPingOK
  <2>2. WireTypeOK' /\ CursorTypeOK'
    BY <1>16 DEF ReadPingOK, AfterResult, WireTypeOK, CursorTypeOK, Replies, cursor
  <2>3. HeardTypeOK'
    BY <1>16 DEF ReadPingOK, Hear, HeardTypeOK, Outcomes
  <2> QED BY <1>16, <2>1, <2>2, <2>3, Undisturbed DEF ReadPingOK
<1>17. CASE ReadPrepareResult
  <2>1. CallTypeOK'
    BY <1>17, CompleteTyped DEF ReadPrepareResult, CallTypeOK, Calling, Waiting, Writing,
          Idle
  <2>2. WireTypeOK'
    BY <1>17 DEF ReadPrepareResult, WireTypeOK, Replies
  <2> QED BY <1>17, <2>1, <2>2, Undisturbed DEF ReadPrepareResult
<1>18. CASE ReadDefinitions
  <2>1. CallTypeOK'
    BY <1>18, CompleteTyped DEF ReadDefinitions
  <2>2. WireTypeOK'
    BY <1>18 DEF ReadDefinitions, WireTypeOK, Replies
  <2> QED BY <1>18, <2>1, <2>2, Undisturbed DEF ReadDefinitions
<1>19. CASE ReadError
  <2>1. CallTypeOK'
    BY <1>19, ReturnTyped DEF ReadError, Answers
  <2>2. Cleanup \/ UNCHANGED link
    BY <1>19 DEF ReadError
  <2>3. LinkTypeOK'
    BY <2>2, Undisturbed DEF ReadError, Cleanup, LinkTypeOK
  <2>4. WireTypeOK'
    BY <1>19 DEF ReadError, Silence, WireTypeOK, Replies
  <2>5. CursorTypeOK'
    BY <1>19, RowsTyped DEF ReadError, CursorTypeOK
  <2>6. HeardTypeOK'
    BY <1>19 DEF ReadError, Hear, HeardTypeOK, Outcomes
  <2> QED BY <1>19, <2>1, <2>2, <2>3, <2>4, <2>5, <2>6, Undisturbed DEF ReadError
<1>20. CASE ReadStale
  <2>1. CallTypeOK'
    BY <1>20, ReturnTyped DEF ReadStale, CallTypeOK, Answers, Calling, Waiting, Writing,
          Idle
  <2>2. LinkTypeOK' /\ WireTypeOK'
    BY <1>20, CloseTyped, Undisturbed DEF ReadStale
  <2>3. CursorTypeOK'
    BY <1>20, RowsTyped DEF ReadStale, CursorTypeOK, cursor
  <2> QED BY <1>20, <2>1, <2>2, <2>3, Undisturbed DEF ReadStale
<1>21. CASE ReadFails
  <2>1. CallTypeOK'
    BY <1>21, ReturnTyped, ErrorTyped DEF ReadFails, Answers
  <2>2. LinkTypeOK' /\ WireTypeOK'
    BY <1>21, CloseTyped DEF ReadFails
  <2>3. CursorTypeOK'
    BY <1>21, RowsTyped DEF ReadFails
  <2> QED BY <1>21, <2>1, <2>2, <2>3, Undisturbed DEF ReadFails
<1>22. CASE ReadInFile
  <2>1. CallTypeOK'
    BY <1>22 DEF ReadInFile, CallTypeOK, Calling, Waiting, Writing, Idle
  <2>2. WireTypeOK' /\ HeardTypeOK'
    BY <1>22 DEF ReadInFile, WireTypeOK, HeardTypeOK, Replies, Outcomes
  <2> QED BY <1>22, <2>1, <2>2, Undisturbed DEF ReadInFile
<1>23. CASE Upload
  <2>1. CallTypeOK'
    BY <1>23 DEF Upload, CallTypeOK, Calling, Waiting, Writing, Idle
  <2>2. WireTypeOK'
    BY <1>23 DEF Upload, WireTypeOK, Replies
  <2> QED BY <1>23, <2>1, <2>2, Undisturbed DEF Upload
<1>24. CASE IgnoreAnswer
  <2>1. CallTypeOK'
    BY <1>24, ReturnTyped DEF IgnoreAnswer, Answers
  <2>2. WireTypeOK'
    BY <1>24 DEF IgnoreAnswer, WireTypeOK, Replies
  <2>3. CursorTypeOK'
    BY <1>24, RowsTyped DEF IgnoreAnswer
  <2>4. HeardTypeOK'
    BY <1>24 DEF IgnoreAnswer, HeardTypeOK
  <2> QED BY <1>24, <2>1, <2>2, <2>3, <2>4, Undisturbed DEF IgnoreAnswer
<1>25. CASE ReadTextRow
  <2>1. CallTypeOK'
    BY <1>25, ReturnTyped DEF ReadTextRow, ReadRow, Answers
  <2>2. WireTypeOK' /\ CursorTypeOK'
    BY <1>25, Undisturbed DEF ReadTextRow, ReadRow, AfterResult, WireTypeOK, CursorTypeOK,
          Replies
  <2> QED BY <1>25, <2>1, <2>2, Undisturbed DEF ReadTextRow, ReadRow
<1>26. CASE ReadBinaryRow
  <2>1. CallTypeOK'
    BY <1>26, ReturnTyped DEF ReadBinaryRow, ReadRow, Answers
  <2>2. WireTypeOK' /\ CursorTypeOK'
    BY <1>26, Undisturbed DEF ReadBinaryRow, ReadRow, AfterResult, WireTypeOK, CursorTypeOK,
          Replies
  <2> QED BY <1>26, <2>1, <2>2, Undisturbed DEF ReadBinaryRow, ReadRow
<1>27. CASE ReadHeadAsRow
  <2>1. CallTypeOK'
    BY <1>27, ReturnTyped DEF ReadHeadAsRow, Answers
  <2>2. WireTypeOK'
    BY <1>27 DEF ReadHeadAsRow, WireTypeOK, Replies
  <2>3. CursorTypeOK'
    BY <1>27 DEF ReadHeadAsRow, CursorTypeOK, cursor
  <2>4. HeardTypeOK'
    BY <1>27 DEF ReadHeadAsRow, HeardTypeOK
  <2> QED BY <1>27, <2>1, <2>2, <2>3, <2>4, Undisturbed DEF ReadHeadAsRow
<1>28. CASE NextSetup
  <2>1. CallTypeOK'
    BY <1>28 DEF NextSetup, SetupAfter, CallTypeOK, Answers, Operations, Connecting, Setup,
          WithContext, WithoutContext, Calling, Waiting, Writing, Idle
  <2>2. HeardTypeOK'
    BY <1>28 DEF NextSetup, HeardTypeOK, Outcomes
  <2> QED BY <1>28, <2>1, <2>2, Undisturbed DEF NextSetup
<1>29. CASE NextCharset
  <2>1. CallTypeOK'
    BY <1>29 DEF NextCharset, CallTypeOK, Operations, Connecting, Setup, WithContext,
          WithoutContext, Calling, Waiting, Writing, Idle
  <2>2. HeardTypeOK'
    BY <1>29 DEF NextCharset, HeardTypeOK, Outcomes
  <2> QED BY <1>29, <2>1, <2>2, Undisturbed DEF NextCharset
<1>30. CASE Abandon
  <2>1. CallTypeOK'
    BY <1>30 DEF Abandon, CallTypeOK, Calling, Waiting, Writing, Idle
  <2>2. LinkTypeOK' /\ WireTypeOK'
    BY <1>30, CloseTyped DEF Abandon
  <2> QED BY <1>30, <2>1, <2>2, Undisturbed DEF Abandon
<1>31. CASE Ready
  <2>1. CallTypeOK'
    BY <1>31, ReturnTyped DEF Ready, CallTypeOK, Answers, Calling, Waiting, Writing, Idle
  <2>2. HeardTypeOK'
    BY <1>31 DEF Ready, HeardTypeOK, Outcomes
  <2> QED BY <1>31, <2>1, <2>2, Undisturbed DEF Ready
<1>32. CASE Finish
  <2>1. CallTypeOK'
    BY <1>32 DEF Finish, AfterFinish, CallTypeOK, Answers, Operations, Calling, Waiting,
          Writing, Idle
  <2>2. WatchTypeOK'
    BY <1>32 DEF Finish, FinishWatch, WatchTypeOK
  <2>3. CursorTypeOK' /\ HeardTypeOK'
    BY <1>32 DEF Finish, CursorTypeOK, HeardTypeOK, Outcomes
  <2> QED BY <1>32, <2>1, <2>2, <2>3, Undisturbed DEF Finish
<1>33. CASE CheckPrepared
  <2>1. CallTypeOK'
    BY <1>33 DEF CheckPrepared, CallTypeOK, Answers, Operations, Calling, Waiting, Writing,
          Idle
  <2> QED BY <1>33, <2>1, Undisturbed DEF CheckPrepared
<1>34. CASE WriteStatementClose
  <2>1. CallTypeOK'
    BY <1>34 DEF WriteStatementClose, CallTypeOK, Answers, Operations, Calling, Waiting,
          Writing, Idle
  <2>2. LinkTypeOK' /\ WireTypeOK'
    BY <1>34, CloseTyped, Undisturbed DEF WriteStatementClose
  <2> QED BY <1>34, <2>1, <2>2, Undisturbed DEF WriteStatementClose
<1>35. CASE Drain
  <2>1. CallTypeOK'
    BY <1>35, ReturnTyped, ErrorTyped DEF Drain, CallTypeOK, Answers, Calling, Waiting,
          Writing, Idle
  <2>2. CursorTypeOK'
    BY <1>35 DEF Drain, GiveUpRows, CursorTypeOK, cursor
  <2> QED BY <1>35, <2>1, <2>2, Undisturbed DEF Drain
<1>36. CASE EndTx
  <2>1. CallTypeOK'
    BY <1>36, ErrorTyped DEF EndTx, CallTypeOK, Answers, Operations, Connecting, Setup,
          WithContext, WithoutContext, Calling, Waiting, Writing, Idle
  <2> QED BY <1>36, <2>1, Undisturbed DEF EndTx
<1>37. CASE CloseStatement
  <2>1. CallTypeOK'
    BY <1>37 DEF CloseStatement, CallTypeOK, Answers, Operations, Connecting, Setup,
          WithContext, WithoutContext, Calling, Waiting, Writing, Idle
  <2> QED BY <1>37, <2>1, Undisturbed DEF CloseStatement
<1>38. CASE NextRow
  <2>1. CallTypeOK'
    BY <1>38, ErrorTyped DEF NextRow, OnRows, RowsAnswer, CallTypeOK, CursorTypeOK, Answers,
          Operations, Connecting, Setup, WithContext, WithoutContext, Calling, Waiting,
          Writing, Idle
  <2> QED BY <1>38, <2>1, Undisturbed DEF NextRow, OnRows
<1>39. CASE NextResultSet
  <2>1. CallTypeOK'
    BY <1>39, ErrorTyped DEF NextResultSet, OnRows, RowsAnswer, CallTypeOK, CursorTypeOK,
          Answers, Operations, Connecting, Setup, WithContext, WithoutContext, Calling,
          Waiting, Writing, Idle
  <2>2. CursorTypeOK'
    BY <1>39 DEF NextResultSet, OnRows, CursorTypeOK, cursor
  <2> QED BY <1>39, <2>1, <2>2, Undisturbed DEF NextResultSet, OnRows
<1>40. CASE CloseRows
  <2>1. CallTypeOK'
    BY <1>40 DEF CloseRows, OnRows, CallTypeOK, Answers, Operations, Connecting, Setup,
          WithContext, WithoutContext, Calling, Waiting, Writing, Idle
  <2> QED BY <1>40, <2>1, Undisturbed DEF CloseRows, OnRows
<1>41. CASE TakeContext
  <2>1. WatchTypeOK'
    BY <1>41 DEF TakeContext, WatchTypeOK
  <2> QED BY <1>41, <2>1, Undisturbed DEF TakeContext
<1>42. CASE SeeDone
  <2>1. WatchTypeOK'
    BY <1>42 DEF SeeDone, WatchTypeOK
  <2> QED BY <1>42, <2>1, Undisturbed DEF SeeDone
<1>43. CASE SeeClosed
  <2>1. WatchTypeOK'
    BY <1>43 DEF SeeClosed, WatchTypeOK
  <2> QED BY <1>43, <2>1, Undisturbed DEF SeeClosed
<1>44. CASE SetCanceled
  <2>1. WatchTypeOK'
    BY <1>44 DEF SetCanceled, WatchTypeOK
  <2> QED BY <1>44, <2>1, Undisturbed DEF SetCanceled
<1>45. CASE SwapClosed
  <2>1. WatchTypeOK'
    BY <1>45 DEF SwapClosed, WatchTypeOK
  <2>2. LinkTypeOK'
    BY <1>45 DEF SwapClosed, LinkTypeOK
  <2> QED BY <1>45, <2>1, <2>2, Undisturbed DEF SwapClosed
<1>46. CASE CloseChannel
  <2>1. WatchTypeOK'
    BY <1>46 DEF CloseChannel, WatchTypeOK
  <2>2. LinkTypeOK'
    BY <1>46 DEF CloseChannel, LinkTypeOK, WatcherFollows
  <2> QED BY <1>46, <2>1, <2>2, Undisturbed DEF CloseChannel
<1>47. CASE CloseSocket
  <2>1. WatchTypeOK'
    BY <1>47 DEF CloseSocket, WatchTypeOK
  <2>2. LinkTypeOK' /\ WireTypeOK'
    BY <1>47 DEF CloseSocket, LinkTypeOK, WireTypeOK, Silence, Replies
  <2> QED BY <1>47, <2>1, <2>2, Undisturbed DEF CloseSocket
<1>48. CASE IsValid
  <2>1. CallTypeOK'
    BY <1>48 DEF IsValid, Discard, CallTypeOK, Answers, Calling, Waiting, Writing, Idle
  <2> QED BY <1>48, <2>1, Undisturbed DEF IsValid, Discard
<1>49. CASE ResetSession
  <2>1. CallTypeOK'
    BY <1>49 DEF ResetSession, Discard, CallTypeOK, Answers, Calling, Waiting, Writing, Idle
  <2> QED BY <1>49, <2>1, Undisturbed DEF ResetSession, Discard
<1>50. CASE Quit
  <2>1. CallTypeOK'
    BY <1>50 DEF Quit, CallTypeOK, Answers, Calling, Waiting, Writing, Idle
  <2>2. LinkTypeOK' /\ WireTypeOK'
    BY <1>50, CloseTyped DEF Quit
  <2> QED BY <1>50, <2>1, <2>2, Undisturbed DEF Quit
<1>51. CASE \E c \in Ctx \cup {Background} : Connect(c)
  <2>1. CallTypeOK'
    BY <1>51 DEF Connect, CallTypeOK, Answers, Operations, Connecting, Setup, WithContext,
          WithoutContext, Calling, Waiting, Writing, Idle
  <2>2. WatchTypeOK'
    BY <1>51 DEF Connect, WatchTypeOK
  <2>3. LinkTypeOK' /\ WireTypeOK'
    BY <1>51, CloseTyped, Undisturbed DEF Connect, LinkTypeOK, WireTypeOK
  <2> QED BY <1>51, <2>1, <2>2, <2>3, Undisturbed DEF Connect
<1>52. CASE \E c \in Ctx \cup {Background}, o \in WithContext : Enter(o, c)
  <2>1. CallTypeOK'
    BY <1>52 DEF Enter, WatchCancel, CallTypeOK, Answers, Operations, Connecting, Setup,
          WithContext, WithoutContext, Calling, Waiting, Writing, Idle
  <2>2. WatchTypeOK'
    BY <1>52 DEF Enter, WatchCancel, WatchTypeOK
  <2>3. LinkTypeOK' /\ WireTypeOK'
    BY <1>52, CloseTyped, Undisturbed DEF Enter, WatchCancel
  <2> QED BY <1>52, <2>1, <2>2, <2>3, Undisturbed DEF Enter, WatchCancel
<1>53. CASE \E c \in Ctx : Cancel(c)
  <2>1. WatchTypeOK'
    BY <1>53 DEF Cancel, WatchTypeOK
  <2> QED BY <1>53, <2>1, Undisturbed DEF Cancel
<1>54. CASE UNCHANGED vars
  BY <1>54, Undisturbed DEF vars
<1> QED
  BY <1>1, <1>2, <1>3, <1>4, <1>5, <1>6, <1>7, <1>8, <1>9, <1>10, <1>11, <1>12, <1>13,
        <1>14, <1>15, <1>16, <1>17, <1>18, <1>19, <1>20, <1>21, <1>22, <1>23, <1>24, <1>25,
        <1>26, <1>27, <1>28, <1>29, <1>30, <1>31, <1>32, <1>33, <1>34, <1>35, <1>36, <1>37,
        <1>38, <1>39, <1>40, <1>41, <1>42, <1>43, <1>44, <1>45, <1>46, <1>47, <1>48, <1>49,
        <1>50, <1>51, <1>52, <1>53, <1>54 DEF Next, Handshake, Writes, Reading, Local,
        Calls, Watcher, Environment

-----------------------------------------------------------------------------
(* The other parts of the invariant.                                        *)

\* The position of the caller stays that of its operation.
LEMMA PhasePreserved ==
  ASSUME IInv, [Next]_vars
  PROVE  Phase'
<1> USE ConstantsAssumption DEF IInv, TypeOK, CallTypeOK, LinkTypeOK, Operations,
        Connecting, Setup, WithContext, WithoutContext, Waiting, Writing, Fetching,
        Prepared, Text, Sized, Phase, Handshaking, call, watch, link, wire, stream, cursor
<1>1. CASE ReadHandshakePacket \/ WriteHandshakeResponsePacket \/ HandleAuthResult \/
          WriteAuthSwitchPacket
  BY <1>1 DEF ReadHandshakePacket, Shake, WriteHandshakeResponsePacket, HandleAuthResult,
        AfterPlugin, WriteAuthSwitchPacket
<1>2. CASE HandshakeFails
  BY <1>2 DEF HandshakeFails, Return, Close, Cleanup, Silence
<1>3. CASE WriteFrame \/ WriteCommandLongData
  BY <1>3 DEF WriteFrame, WriteCommandLongData
<1>4. CASE WriteCommandPacket \/ WriteExecutePacket
  BY <1>4 DEF WriteCommandPacket, Send, FirstReply, Hear, WriteExecutePacket
<1>5. CASE WriteRefused
  BY <1>5 DEF WriteRefused, Return, WriteError, MarkBadConn
<1>6. CASE WriteFails
  BY <1>6 DEF WriteFails, Return, WriteError, MarkBadConn, Close, Cleanup, Silence, Hear,
        RowsAfterError, GiveUpRows
<1>7. CASE ReadOK
  BY <1>7 DEF ReadOK, Reads, SeveralStatements, ResultEnds, AfterResult, HandOut, Hear,
        NextResult, Complete, Return, GiveUpRows
<1>8. CASE ReadColumnCount \/ ReadInFile \/ Upload
  BY <1>8 DEF ReadColumnCount, Reads, ReadInFile, SeveralStatements, Upload
<1>9. CASE ReadColumns
  BY <1>9 DEF ReadColumns, Reads, HandOut, Return
<1>10. CASE SkipRows
  BY <1>10 DEF SkipRows, Reads, SeveralResults, ResultEnds, AfterResult, HandOut, Hear,
        NextResult, Complete, Return, GiveUpRows
<1>11. CASE ReadPingOK
  BY <1>11 DEF ReadPingOK, Reads, AfterResult, Hear, Complete, Return, GiveUpRows
<1>12. CASE ReadPrepareResult \/ ReadDefinitions
  BY <1>12 DEF ReadPrepareResult, Reads, Complete, Return, GiveUpRows, ReadDefinitions
<1>13. CASE ReadError
  BY <1>13 DEF ReadError, Reads, Silence, Return, Cleanup, Hear, RowsAfterError, GiveUpRows
<1>14. CASE ReadStale
  <2>1. CASE pc' = "confused" /\ UNCHANGED <<op, cursor>>
    BY <1>14, <2>1 DEF ReadStale
  <2>2. CASE Return("error") /\ RowsAfterError
    BY <1>14, <2>2 DEF ReadStale, Return, RowsAfterError, GiveUpRows
  <2> QED BY <1>14, <2>1, <2>2 DEF ReadStale
<1>15. CASE ReadFails
  BY <1>15 DEF ReadFails, Close, Cleanup, Silence, Return, ClosedError, RowsAfterError,
        GiveUpRows
<1>16. CASE IgnoreAnswer
  BY <1>16 DEF IgnoreAnswer, Reads, Return, RowsAfterError, GiveUpRows
<1>17. CASE ReadTextRow \/ ReadBinaryRow
  BY <1>17 DEF ReadTextRow, ReadRow, Reads, Return, AfterResult, ReadBinaryRow
<1>18. CASE ReadHeadAsRow
  BY <1>18 DEF ReadHeadAsRow, Return
<1>19. CASE NextSetup \/ NextCharset
  BY <1>19 DEF NextSetup, SetupAfter, NextCharset
<1>20. CASE Abandon
  BY <1>20 DEF Abandon, Close, Cleanup, Silence
<1>21. CASE Ready
  BY <1>21 DEF Ready, Return
<1>22. CASE Finish
  <2>1. CASE AfterFinish \in Idle
    BY <1>22, <2>1 DEF Finish, AfterFinish, Idle
  <2>2. CASE AfterFinish \notin Idle
    BY <1>22, <2>2 DEF Finish, AfterFinish, Idle
  <2> QED BY <2>1, <2>2
<1>23. CASE CheckPrepared
  BY <1>23 DEF CheckPrepared
<1>24. CASE WriteStatementClose
  BY <1>24 DEF WriteStatementClose, Close, Cleanup, Silence
<1>25. CASE Drain
  BY <1>25 DEF Drain, GiveUpRows, Return, ClosedError, Readable
<1>26. CASE EndTx \/ CloseStatement
  BY <1>26 DEF EndTx, ClosedError, CloseStatement
<1>27. CASE NextRow
  BY <1>27 DEF NextRow, OnRows, RowsAnswer, Readable, ClosedError
<1>28. CASE NextResultSet
  BY <1>28 DEF NextResultSet, OnRows, RowsAnswer, Readable, ClosedError
<1>29. CASE CloseRows
  BY <1>29 DEF CloseRows, OnRows
<1>30. CASE TakeContext
  BY <1>30 DEF TakeContext
<1>31. CASE SeeDone \/ SetCanceled
  BY <1>31 DEF SeeDone, SetCanceled
<1>32. CASE SeeClosed
  BY <1>32 DEF SeeClosed
<1>33. CASE SwapClosed
  BY <1>33 DEF SwapClosed
<1>34. CASE CloseChannel \/ CloseSocket
  BY <1>34 DEF CloseChannel, CloseSocket, Silence
<1>35. CASE IsValid \/ ResetSession
  BY <1>35 DEF IsValid, Discard, ResetSession
<1>36. CASE Quit
  BY <1>36 DEF Quit, Close, Cleanup, Silence
<1>37. CASE \E c \in Ctx \cup {Background} : Connect(c)
  BY <1>37 DEF Connect, Close, Cleanup, Silence
<1>38. CASE \E c \in Ctx \cup {Background}, o \in WithContext : Enter(o, c)
  BY <1>38 DEF Enter, WatchCancel, Close, Cleanup, Silence
<1>39. CASE \E c \in Ctx : Cancel(c)
  BY <1>39 DEF Cancel
<1>40. CASE UNCHANGED vars
  BY <1>40 DEF vars
<1> QED
  BY <1>1, <1>2, <1>3, <1>4, <1>5, <1>6, <1>7, <1>8, <1>9, <1>10, <1>11, <1>12, <1>13,
        <1>14, <1>15, <1>16, <1>17, <1>18, <1>19, <1>20, <1>21, <1>22, <1>23, <1>24, <1>25,
        <1>26, <1>27, <1>28, <1>29, <1>30, <1>31, <1>32, <1>33, <1>34, <1>35, <1>36, <1>37,
        <1>38, <1>39, <1>40 DEF Next, Handshake, Writes, Reading, Local, Calls, Watcher,
        Environment

\* The watcher holds a context only while mc.watching says so, and after a cancellation
\* gets no other: finish and watchCancel leave mc.watching set then.
LEMMA WatcherPreserved ==
  ASSUME IInv, [Next]_vars
  PROVE  WatcherFollows'
<1> USE ConstantsAssumption DEF IInv, Connecting, Setup, WithContext, WithoutContext, Idle,
        Waiting, Writing, Phase, Handshaking, WatcherFollows, Resting, TypeOK, LinkTypeOK,
        call, watch, link, wire, stream, cursor
<1>1. CASE ReadHandshakePacket \/ WriteHandshakeResponsePacket \/ HandleAuthResult \/
          WriteAuthSwitchPacket
  BY <1>1 DEF ReadHandshakePacket, Shake, WriteHandshakeResponsePacket, HandleAuthResult,
        AfterPlugin, WriteAuthSwitchPacket
<1>2. CASE HandshakeFails
  BY <1>2 DEF HandshakeFails, Return, Close, Cleanup, Silence
<1>3. CASE WriteFrame \/ WriteCommandLongData
  BY <1>3 DEF WriteFrame, WriteCommandLongData
<1>4. CASE WriteCommandPacket \/ WriteExecutePacket
  BY <1>4 DEF WriteCommandPacket, Send, FirstReply, Hear, WriteExecutePacket
<1>5. CASE WriteRefused
  BY <1>5 DEF WriteRefused, Return, WriteError, MarkBadConn
<1>6. CASE WriteFails
  BY <1>6 DEF WriteFails, Return, WriteError, MarkBadConn, Close, Cleanup, Silence, Hear,
        RowsAfterError, GiveUpRows
<1>7. CASE ReadOK
  BY <1>7 DEF ReadOK, Reads, SeveralStatements, ResultEnds, AfterResult, HandOut, Hear,
        NextResult, Complete, Return, GiveUpRows
<1>8. CASE ReadColumnCount \/ ReadInFile \/ Upload
  BY <1>8 DEF ReadColumnCount, Reads, ReadInFile, SeveralStatements, Upload
<1>9. CASE ReadColumns
  BY <1>9 DEF ReadColumns, Reads, HandOut, Return
<1>10. CASE SkipRows
  BY <1>10 DEF SkipRows, Reads, SeveralResults, ResultEnds, AfterResult, HandOut, Hear,
        NextResult, Complete, Return, GiveUpRows
<1>11. CASE ReadPingOK
  BY <1>11 DEF ReadPingOK, Reads, AfterResult, Hear, Complete, Return, GiveUpRows
<1>12. CASE ReadPrepareResult \/ ReadDefinitions
  BY <1>12 DEF ReadPrepareResult, Reads, Complete, Return, GiveUpRows, ReadDefinitions
<1>13. CASE ReadError
  BY <1>13 DEF ReadError, Reads, Silence, Return, Cleanup, Hear, RowsAfterError, GiveUpRows
<1>14. CASE ReadStale
  <2>1. CASE pc' = "confused" /\ UNCHANGED link
    BY <1>14, <2>1 DEF ReadStale
  <2>2. CASE Close /\ Return("error")
    <3>1. pc' # "new" /\ pc # "new" /\ pc # "gone"
      BY <1>14, <2>2 DEF ReadStale, Return
    <3>2. closech => closech'
      BY <2>2 DEF Close, Cleanup
    <3> QED BY <1>14, <2>2, <3>1, <3>2 DEF ReadStale, Close, Cleanup
  <2> QED BY <1>14, <2>1, <2>2 DEF ReadStale
<1>15. CASE ReadFails
  BY <1>15 DEF ReadFails, Close, Cleanup, Silence, Return, ClosedError, RowsAfterError,
        GiveUpRows
<1>16. CASE IgnoreAnswer
  BY <1>16 DEF IgnoreAnswer, Reads, Return, RowsAfterError, GiveUpRows
<1>17. CASE ReadTextRow \/ ReadBinaryRow
  BY <1>17 DEF ReadTextRow, ReadRow, Reads, Return, AfterResult, ReadBinaryRow
<1>18. CASE ReadHeadAsRow
  BY <1>18 DEF ReadHeadAsRow, Return
<1>19. CASE NextSetup \/ NextCharset
  BY <1>19 DEF NextSetup, SetupAfter, NextCharset
<1>20. CASE Abandon
  BY <1>20 DEF Abandon, Close, Cleanup, Silence
<1>21. CASE Ready
  BY <1>21 DEF Ready, Return
<1>22. CASE Finish
  BY <1>22 DEF Finish, FinishWatch, AfterFinish
<1>23. CASE CheckPrepared
  BY <1>23 DEF CheckPrepared
<1>24. CASE WriteStatementClose
  BY <1>24 DEF WriteStatementClose, Close, Cleanup, Silence
<1>25. CASE Drain
  BY <1>25 DEF Drain, GiveUpRows, Return, ClosedError, Readable
<1>26. CASE EndTx \/ CloseStatement
  BY <1>26 DEF EndTx, ClosedError, CloseStatement
<1>27. CASE NextRow
  BY <1>27 DEF NextRow, OnRows, RowsAnswer, Readable, ClosedError
<1>28. CASE NextResultSet
  BY <1>28 DEF NextResultSet, OnRows, RowsAnswer, Readable, ClosedError
<1>29. CASE CloseRows
  BY <1>29 DEF CloseRows, OnRows
<1>30. CASE TakeContext
  BY <1>30 DEF TakeContext
<1>31. CASE SeeDone \/ SetCanceled
  BY <1>31 DEF SeeDone, SetCanceled
<1>32. CASE SeeClosed
  BY <1>32 DEF SeeClosed
<1>33. CASE SwapClosed
  BY <1>33 DEF SwapClosed
<1>34. CASE CloseChannel \/ CloseSocket
  BY <1>34 DEF CloseChannel, CloseSocket, Silence
<1>35. CASE IsValid \/ ResetSession
  BY <1>35 DEF IsValid, Discard, ResetSession
<1>36. CASE Quit
  BY <1>36 DEF Quit, Close, Cleanup, Silence
<1>37. CASE \E c \in Ctx \cup {Background} : Connect(c)
  BY <1>37 DEF Connect, Close, Cleanup, Silence
<1>38. CASE \E c \in Ctx \cup {Background}, o \in WithContext : Enter(o, c)
  BY <1>38 DEF Enter, WatchCancel, Close, Cleanup, Silence
<1>39. CASE \E c \in Ctx : Cancel(c)
  BY <1>39 DEF Cancel
<1>40. CASE UNCHANGED vars
  BY <1>40 DEF vars
<1> QED
  BY <1>1, <1>2, <1>3, <1>4, <1>5, <1>6, <1>7, <1>8, <1>9, <1>10, <1>11, <1>12, <1>13,
        <1>14, <1>15, <1>16, <1>17, <1>18, <1>19, <1>20, <1>21, <1>22, <1>23, <1>24, <1>25,
        <1>26, <1>27, <1>28, <1>29, <1>30, <1>31, <1>32, <1>33, <1>34, <1>35, <1>36, <1>37,
        <1>38, <1>39, <1>40 DEF Next, Handshake, Writes, Reading, Local, Calls, Watcher,
        Environment

\* What is watched on an open connection is in use: finish takes the context back before
\* the operation returns, and rows keep theirs until Close.
LEMMA WatchedPreserved ==
  ASSUME IInv, [Next]_vars
  PROVE  WatchedInUse'
<1> USE ConstantsAssumption DEF IInv, Connecting, Setup, WithContext, WithoutContext, Idle,
        Waiting, Writing, Phase, Handshaking, Fetching, WatcherFollows, WatchedInUse,
        Watched, Resting, TypeOK, LinkTypeOK, call, watch, link, wire, stream, cursor
<1>1. CASE ReadHandshakePacket \/ WriteHandshakeResponsePacket \/ HandleAuthResult \/
          WriteAuthSwitchPacket
  BY <1>1 DEF ReadHandshakePacket, Shake, WriteHandshakeResponsePacket, HandleAuthResult,
        AfterPlugin, WriteAuthSwitchPacket
<1>2. CASE HandshakeFails
  BY <1>2 DEF HandshakeFails, Return, Close, Cleanup, Silence
<1>3. CASE WriteFrame \/ WriteCommandLongData
  BY <1>3 DEF WriteFrame, WriteCommandLongData
<1>4. CASE WriteCommandPacket \/ WriteExecutePacket
  BY <1>4 DEF WriteCommandPacket, Send, FirstReply, Hear, WriteExecutePacket
<1>5. CASE WriteRefused
  BY <1>5 DEF WriteRefused, Return, WriteError, MarkBadConn
<1>6. CASE WriteFails
  BY <1>6 DEF WriteFails, Return, WriteError, MarkBadConn, Close, Cleanup, Silence, Hear,
        RowsAfterError, GiveUpRows
<1>7. CASE ReadOK
  BY <1>7 DEF ReadOK, Reads, SeveralStatements, ResultEnds, AfterResult, HandOut, Hear,
        NextResult, Complete, Return, GiveUpRows
<1>8. CASE ReadColumnCount \/ ReadInFile \/ Upload
  BY <1>8 DEF ReadColumnCount, Reads, ReadInFile, SeveralStatements, Upload
<1>9. CASE ReadColumns
  BY <1>9 DEF ReadColumns, Reads, HandOut, Return
<1>10. CASE SkipRows
  BY <1>10 DEF SkipRows, Reads, SeveralResults, ResultEnds, AfterResult, HandOut, Hear,
        NextResult, Complete, Return, GiveUpRows
<1>11. CASE ReadPingOK
  BY <1>11 DEF ReadPingOK, Reads, AfterResult, Hear, Complete, Return, GiveUpRows
<1>12. CASE ReadPrepareResult \/ ReadDefinitions
  <2>1. CASE Complete
    BY <1>12, <2>1 DEF ReadPrepareResult, ReadDefinitions, Reads, Complete, Return
  <2>2. CASE pc' = "definitions" /\ UNCHANGED <<op, ctx>>
    BY <1>12, <2>2 DEF ReadPrepareResult, ReadDefinitions, Reads
  <2> QED BY <1>12, <2>1, <2>2 DEF ReadPrepareResult, ReadDefinitions
<1>13. CASE ReadError
  BY <1>13 DEF ReadError, Reads, Silence, Return, Cleanup, Hear, RowsAfterError, GiveUpRows
<1>14. CASE ReadStale
  BY <1>14 DEF ReadStale, Close, Cleanup, Silence, Return, RowsAfterError, GiveUpRows
<1>15. CASE ReadFails
  BY <1>15 DEF ReadFails, Close, Cleanup, Silence, Return, ClosedError, RowsAfterError,
        GiveUpRows
<1>16. CASE IgnoreAnswer
  BY <1>16 DEF IgnoreAnswer, Reads, Return, RowsAfterError, GiveUpRows
<1>17. CASE ReadTextRow \/ ReadBinaryRow
  BY <1>17 DEF ReadTextRow, ReadRow, Reads, Return, AfterResult, ReadBinaryRow
<1>18. CASE ReadHeadAsRow
  BY <1>18 DEF ReadHeadAsRow, Return
<1>19. CASE NextSetup \/ NextCharset
  BY <1>19 DEF NextSetup, SetupAfter, NextCharset
<1>20. CASE Abandon
  BY <1>20 DEF Abandon, Close, Cleanup, Silence
<1>21. CASE Ready
  BY <1>21 DEF Ready, Return
<1>22. CASE Finish
  BY <1>22 DEF Finish, FinishWatch, AfterFinish
<1>23. CASE CheckPrepared
  BY <1>23 DEF CheckPrepared
<1>24. CASE WriteStatementClose
  BY <1>24 DEF WriteStatementClose, Close, Cleanup, Silence
<1>25. CASE Drain
  BY <1>25 DEF Drain, GiveUpRows, Return, ClosedError, Readable
<1>26. CASE EndTx \/ CloseStatement
  BY <1>26 DEF EndTx, ClosedError, CloseStatement
<1>27. CASE NextRow
  BY <1>27 DEF NextRow, OnRows, RowsAnswer, Readable, ClosedError
<1>28. CASE NextResultSet
  BY <1>28 DEF NextResultSet, OnRows, RowsAnswer, Readable, ClosedError
<1>29. CASE CloseRows
  BY <1>29 DEF CloseRows, OnRows
<1>30. CASE TakeContext
  BY <1>30 DEF TakeContext
<1>31. CASE SeeDone \/ SetCanceled
  BY <1>31 DEF SeeDone, SetCanceled
<1>32. CASE SeeClosed
  BY <1>32 DEF SeeClosed
<1>33. CASE SwapClosed
  BY <1>33 DEF SwapClosed
<1>34. CASE CloseChannel \/ CloseSocket
  BY <1>34 DEF CloseChannel, CloseSocket, Silence
<1>35. CASE IsValid \/ ResetSession
  BY <1>35 DEF IsValid, Discard, ResetSession
<1>36. CASE Quit
  BY <1>36 DEF Quit, Close, Cleanup, Silence
<1>37. CASE \E c \in Ctx \cup {Background} : Connect(c)
  BY <1>37 DEF Connect, Close, Cleanup, Silence
<1>38. CASE \E c \in Ctx \cup {Background}, o \in WithContext : Enter(o, c)
  BY <1>38 DEF Enter, WatchCancel, Close, Cleanup, Silence
<1>39. CASE \E c \in Ctx : Cancel(c)
  BY <1>39 DEF Cancel
<1>40. CASE UNCHANGED vars
  BY <1>40 DEF vars
<1> QED
  BY <1>1, <1>2, <1>3, <1>4, <1>5, <1>6, <1>7, <1>8, <1>9, <1>10, <1>11, <1>12, <1>13,
        <1>14, <1>15, <1>16, <1>17, <1>18, <1>19, <1>20, <1>21, <1>22, <1>23, <1>24, <1>25,
        <1>26, <1>27, <1>28, <1>29, <1>30, <1>31, <1>32, <1>33, <1>34, <1>35, <1>36, <1>37,
        <1>38, <1>39, <1>40 DEF Next, Handshake, Writes, Reading, Local, Calls, Watcher,
        Environment

\* Whoever enters an operation hands its context over, and takes it back only at its end; a
\* close is three steps of the watcher, or one of the caller's.
LEMMA TouchPreserved ==
  ASSUME IInv, [Next]_vars
  PROVE  InTouch'
<1> USE ConstantsAssumption DEF IInv, Connecting, Setup, WithContext, WithoutContext, Idle,
        Waiting, Writing, Phase, Handshaking, WatcherFollows, InTouch, Resting, TypeOK, LinkTypeOK,
        call, watch, link, wire, stream, cursor
<1>1. CASE ReadHandshakePacket \/ WriteHandshakeResponsePacket \/ HandleAuthResult \/
          WriteAuthSwitchPacket
  BY <1>1 DEF ReadHandshakePacket, Shake, WriteHandshakeResponsePacket, HandleAuthResult,
        AfterPlugin, WriteAuthSwitchPacket
<1>2. CASE HandshakeFails
  BY <1>2 DEF HandshakeFails, Return, Close, Cleanup, Silence
<1>3. CASE WriteFrame \/ WriteCommandLongData
  BY <1>3 DEF WriteFrame, WriteCommandLongData
<1>4. CASE WriteCommandPacket \/ WriteExecutePacket
  BY <1>4 DEF WriteCommandPacket, Send, FirstReply, Hear, WriteExecutePacket
<1>5. CASE WriteRefused
  BY <1>5 DEF WriteRefused, Return, WriteError, MarkBadConn
<1>6. CASE WriteFails
  BY <1>6 DEF WriteFails, Return, WriteError, MarkBadConn, Close, Cleanup, Silence, Hear,
        RowsAfterError, GiveUpRows
<1>7. CASE ReadOK
  BY <1>7 DEF ReadOK, Reads, SeveralStatements, ResultEnds, AfterResult, HandOut, Hear,
        NextResult, Complete, Return, GiveUpRows
<1>8. CASE ReadColumnCount \/ ReadInFile \/ Upload
  BY <1>8 DEF ReadColumnCount, Reads, ReadInFile, SeveralStatements, Upload
<1>9. CASE ReadColumns
  BY <1>9 DEF ReadColumns, Reads, HandOut, Return
<1>10. CASE SkipRows
  BY <1>10 DEF SkipRows, Reads, SeveralResults, ResultEnds, AfterResult, HandOut, Hear,
        NextResult, Complete, Return, GiveUpRows
<1>11. CASE ReadPingOK
  BY <1>11 DEF ReadPingOK, Reads, AfterResult, Hear, Complete, Return, GiveUpRows
<1>12. CASE ReadPrepareResult \/ ReadDefinitions
  BY <1>12 DEF ReadPrepareResult, Reads, Complete, Return, GiveUpRows, ReadDefinitions
<1>13. CASE ReadError
  BY <1>13 DEF ReadError, Reads, Silence, Return, Cleanup, Hear, RowsAfterError, GiveUpRows
<1>14. CASE ReadStale
  <2>1. CASE pc' = "confused" /\ UNCHANGED <<op, ctx, answer, link>>
    BY <1>14, <2>1 DEF ReadStale
  <2>2. CASE Close /\ Return("error")
    <3>1. /\ closed' # "no" /\ (closech' \/ wpc = "closech")
          /\ closech' => socket' = "shut" \/ wpc = "shut"
      BY <2>2 DEF Close, Cleanup
    <3>2. wpc' = wpc
      BY <1>14 DEF ReadStale
    <3> QED BY <3>1, <3>2
  <2> QED BY <1>14, <2>1, <2>2 DEF ReadStale
<1>15. CASE ReadFails
  BY <1>15 DEF ReadFails, Close, Cleanup, Silence, Return, ClosedError, RowsAfterError,
        GiveUpRows
<1>16. CASE IgnoreAnswer
  BY <1>16 DEF IgnoreAnswer, Reads, Return, RowsAfterError, GiveUpRows
<1>17. CASE ReadTextRow \/ ReadBinaryRow
  BY <1>17 DEF ReadTextRow, ReadRow, Reads, Return, AfterResult, ReadBinaryRow
<1>18. CASE ReadHeadAsRow
  BY <1>18 DEF ReadHeadAsRow, Return
<1>19. CASE NextSetup \/ NextCharset
  BY <1>19 DEF NextSetup, SetupAfter, NextCharset
<1>20. CASE Abandon
  BY <1>20 DEF Abandon, Close, Cleanup, Silence
<1>21. CASE Ready
  BY <1>21 DEF Ready, Return
<1>22. CASE Finish
  BY <1>22 DEF Finish, FinishWatch, AfterFinish
<1>23. CASE CheckPrepared
  BY <1>23 DEF CheckPrepared
<1>24. CASE WriteStatementClose
  BY <1>24 DEF WriteStatementClose, Close, Cleanup, Silence
<1>25. CASE Drain
  BY <1>25 DEF Drain, GiveUpRows, Return, ClosedError, Readable
<1>26. CASE EndTx \/ CloseStatement
  BY <1>26 DEF EndTx, ClosedError, CloseStatement
<1>27. CASE NextRow
  BY <1>27 DEF NextRow, OnRows, RowsAnswer, Readable, ClosedError
<1>28. CASE NextResultSet
  BY <1>28 DEF NextResultSet, OnRows, RowsAnswer, Readable, ClosedError
<1>29. CASE CloseRows
  BY <1>29 DEF CloseRows, OnRows
<1>30. CASE TakeContext
  BY <1>30 DEF TakeContext
<1>31. CASE SeeDone \/ SetCanceled
  BY <1>31 DEF SeeDone, SetCanceled
<1>32. CASE SeeClosed
  BY <1>32 DEF SeeClosed
<1>33. CASE SwapClosed
  BY <1>33 DEF SwapClosed
<1>34. CASE CloseChannel \/ CloseSocket
  BY <1>34 DEF CloseChannel, CloseSocket, Silence
<1>35. CASE IsValid \/ ResetSession
  BY <1>35 DEF IsValid, Discard, ResetSession
<1>36. CASE Quit
  BY <1>36 DEF Quit, Close, Cleanup, Silence
<1>37. CASE \E c \in Ctx \cup {Background} : Connect(c)
  <2> SUFFICES ASSUME NEW c \in Ctx \cup {Background}, Connect(c) PROVE InTouch'
    BY <1>37
  <2>1. /\ pc = "new" /\ closed = "no" /\ ~closech /\ ~watching /\ inbox = None
        /\ wpc = "gone" /\ canceled = None
    BY DEF Connect
  <2>2. CASE pc' = "gone" /\ answer' = "error"
    BY <2>1, <2>2 DEF Connect
  <2>3. CASE pc' = "gone" /\ answer' = "ctx"
    BY <2>1, <2>3 DEF Connect, Close, Cleanup, Silence
  <2>4. CASE pc' = "greeting"
    BY <2>1, <2>4 DEF Connect
  <2> QED BY <2>2, <2>3, <2>4 DEF Connect
<1>38. CASE \E c \in Ctx \cup {Background}, o \in WithContext : Enter(o, c)
  BY <1>38 DEF Enter, WatchCancel, Close, Cleanup, Silence
<1>39. CASE \E c \in Ctx : Cancel(c)
  BY <1>39 DEF Cancel
<1>40. CASE UNCHANGED vars
  BY <1>40 DEF vars
<1> QED
  BY <1>1, <1>2, <1>3, <1>4, <1>5, <1>6, <1>7, <1>8, <1>9, <1>10, <1>11, <1>12, <1>13,
        <1>14, <1>15, <1>16, <1>17, <1>18, <1>19, <1>20, <1>21, <1>22, <1>23, <1>24, <1>25,
        <1>26, <1>27, <1>28, <1>29, <1>30, <1>31, <1>32, <1>33, <1>34, <1>35, <1>36, <1>37,
        <1>38, <1>39, <1>40 DEF Next, Handshake, Writes, Reading, Local, Calls, Watcher,
        Environment

\* Until an operation that may be repeated has sent its last frame, and not after, it can
\* end with driver.ErrBadConn.
LEMMA RetryPreserved ==
  ASSUME IInv, [Next]_vars
  PROVE  RetryInv'
<1> USE ConstantsAssumption DEF IInv, Connecting, Setup, WithContext, WithoutContext, Idle,
        Waiting, Writing, Phase, Handshaking, Fetching, Prepared, Sized, RetryInv, call,
        watch, link, wire, stream, cursor
<1>1. CASE ReadHandshakePacket \/ WriteHandshakeResponsePacket \/ HandleAuthResult \/
          WriteAuthSwitchPacket
  BY <1>1 DEF ReadHandshakePacket, Shake, WriteHandshakeResponsePacket, HandleAuthResult,
        AfterPlugin, WriteAuthSwitchPacket
<1>2. CASE HandshakeFails
  BY <1>2 DEF HandshakeFails, Return, Close, Cleanup, Silence
<1>3. CASE WriteFrame \/ WriteCommandLongData
  BY <1>3 DEF WriteFrame, WriteCommandLongData
<1>4. CASE WriteCommandPacket \/ WriteExecutePacket
  BY <1>4 DEF WriteCommandPacket, Send, FirstReply, Hear, WriteExecutePacket
<1>5. CASE WriteRefused
  BY <1>5 DEF WriteRefused, Return, WriteError, MarkBadConn
<1>6. CASE WriteFails
  BY <1>6 DEF WriteFails, Return, WriteError, MarkBadConn, Close, Cleanup, Silence, Hear,
        RowsAfterError, GiveUpRows
<1>7. CASE ReadOK
  BY <1>7 DEF ReadOK, Reads, SeveralStatements, ResultEnds, AfterResult, HandOut, Hear,
        NextResult, Complete, Return, GiveUpRows
<1>8. CASE ReadColumnCount \/ ReadInFile \/ Upload
  BY <1>8 DEF ReadColumnCount, Reads, ReadInFile, SeveralStatements, Upload
<1>9. CASE ReadColumns
  BY <1>9 DEF ReadColumns, Reads, HandOut, Return
<1>10. CASE SkipRows
  BY <1>10 DEF SkipRows, Reads, SeveralResults, ResultEnds, AfterResult, HandOut, Hear,
        NextResult, Complete, Return, GiveUpRows
<1>11. CASE ReadPingOK
  BY <1>11 DEF ReadPingOK, Reads, AfterResult, Hear, Complete, Return, GiveUpRows
<1>12. CASE ReadPrepareResult \/ ReadDefinitions
  BY <1>12 DEF ReadPrepareResult, Reads, Complete, Return, GiveUpRows, ReadDefinitions
<1>13. CASE ReadError
  BY <1>13 DEF ReadError, Reads, Silence, Return, Cleanup, Hear, RowsAfterError, GiveUpRows
<1>14. CASE ReadStale
  BY <1>14 DEF ReadStale, Close, Cleanup, Silence, Return, RowsAfterError, GiveUpRows
<1>15. CASE ReadFails
  BY <1>15 DEF ReadFails, Close, Cleanup, Silence, Return, ClosedError, RowsAfterError,
        GiveUpRows
<1>16. CASE IgnoreAnswer
  BY <1>16 DEF IgnoreAnswer, Reads, Return, RowsAfterError, GiveUpRows
<1>17. CASE ReadTextRow \/ ReadBinaryRow
  BY <1>17 DEF ReadTextRow, ReadRow, Reads, Return, AfterResult, ReadBinaryRow
<1>18. CASE ReadHeadAsRow
  BY <1>18 DEF ReadHeadAsRow, Return
<1>19. CASE NextSetup \/ NextCharset
  BY <1>19 DEF NextSetup, SetupAfter, NextCharset
<1>20. CASE Abandon
  BY <1>20 DEF Abandon, Close, Cleanup, Silence
<1>21. CASE Ready
  BY <1>21 DEF Ready, Return
<1>22. CASE Finish
  BY <1>22 DEF Finish, FinishWatch, AfterFinish
<1>23. CASE CheckPrepared
  BY <1>23 DEF CheckPrepared
<1>24. CASE WriteStatementClose
  BY <1>24 DEF WriteStatementClose, Close, Cleanup, Silence
<1>25. CASE Drain
  BY <1>25 DEF Drain, GiveUpRows, Return, ClosedError, Readable
<1>26. CASE EndTx \/ CloseStatement
  BY <1>26 DEF EndTx, ClosedError, CloseStatement
<1>27. CASE NextRow
  BY <1>27 DEF NextRow, OnRows, RowsAnswer, Readable, ClosedError
<1>28. CASE NextResultSet
  BY <1>28 DEF NextResultSet, OnRows, RowsAnswer, Readable, ClosedError
<1>29. CASE CloseRows
  BY <1>29 DEF CloseRows, OnRows
<1>30. CASE TakeContext
  BY <1>30 DEF TakeContext
<1>31. CASE SeeDone \/ SetCanceled
  BY <1>31 DEF SeeDone, SetCanceled
<1>32. CASE SeeClosed
  BY <1>32 DEF SeeClosed
<1>33. CASE SwapClosed
  BY <1>33 DEF SwapClosed
<1>34. CASE CloseChannel \/ CloseSocket
  BY <1>34 DEF CloseChannel, CloseSocket, Silence
<1>35. CASE IsValid \/ ResetSession
  BY <1>35 DEF IsValid, Discard, ResetSession
<1>36. CASE Quit
  BY <1>36 DEF Quit, Close, Cleanup, Silence
<1>37. CASE \E c \in Ctx \cup {Background} : Connect(c)
  BY <1>37 DEF Connect, Close, Cleanup, Silence
<1>38. CASE \E c \in Ctx \cup {Background}, o \in WithContext : Enter(o, c)
  BY <1>38 DEF Enter, WatchCancel, Close, Cleanup, Silence
<1>39. CASE \E c \in Ctx : Cancel(c)
  BY <1>39 DEF Cancel
<1>40. CASE UNCHANGED vars
  BY <1>40 DEF vars
<1> QED
  BY <1>1, <1>2, <1>3, <1>4, <1>5, <1>6, <1>7, <1>8, <1>9, <1>10, <1>11, <1>12, <1>13,
        <1>14, <1>15, <1>16, <1>17, <1>18, <1>19, <1>20, <1>21, <1>22, <1>23, <1>24, <1>25,
        <1>26, <1>27, <1>28, <1>29, <1>30, <1>31, <1>32, <1>33, <1>34, <1>35, <1>36, <1>37,
        <1>38, <1>39, <1>40 DEF Next, Handshake, Writes, Reading, Local, Calls, Watcher,
        Environment

\* Every operation reads the stream as far as the rows it hands out, and Close of the rows
\* reads the rest.
LEMMA StreamPreserved ==
  ASSUME IInv, [Next]_vars
  PROVE  StreamInv'
<1> USE ConstantsAssumption DEF IInv, Connecting, Setup, WithContext, WithoutContext, Idle,
        Waiting, Writing, Phase, Handshaking, Fetching, Prepared, Text, Sized,
        WatcherFollows, StreamInv, Settled, Pending, Resting, call, watch, link, wire,
        stream, cursor
<1>1. CASE ReadHandshakePacket \/ WriteHandshakeResponsePacket \/ HandleAuthResult \/
          WriteAuthSwitchPacket
  BY <1>1 DEF ReadHandshakePacket, Shake, WriteHandshakeResponsePacket, HandleAuthResult,
        AfterPlugin, WriteAuthSwitchPacket
<1>2. CASE HandshakeFails
  BY <1>2 DEF HandshakeFails, Return, Close, Cleanup, Silence
<1>3. CASE WriteFrame \/ WriteCommandLongData
  BY <1>3 DEF WriteFrame, WriteCommandLongData
<1>4. CASE WriteCommandPacket \/ WriteExecutePacket
  BY <1>4 DEF WriteCommandPacket, Send, FirstReply, Hear, WriteExecutePacket
<1>5. CASE WriteRefused
  BY <1>5 DEF WriteRefused, Return, WriteError, MarkBadConn
<1>6. CASE WriteFails
  BY <1>6 DEF WriteFails, Return, WriteError, MarkBadConn, Close, Cleanup, Silence, Hear,
        RowsAfterError, GiveUpRows
<1>7. CASE ReadOK
  BY <1>7 DEF ReadOK, Reads, SeveralStatements, ResultEnds, AfterResult, HandOut, Hear,
        NextResult, Complete, Return, GiveUpRows
<1>8. CASE ReadColumnCount \/ ReadInFile \/ Upload
  BY <1>8 DEF ReadColumnCount, Reads, ReadInFile, SeveralStatements, Upload
<1>9. CASE ReadColumns
  <2>1. CASE op \in Fetching /\ HandOut(TRUE)
    BY <1>9, <2>1 DEF ReadColumns, HandOut, Reads
  <2>2. CASE op = "nextset"
    BY <1>9, <2>2 DEF ReadColumns, Return, Reads
  <2>3. CASE op \notin Fetching \cup {"nextset"}
    BY <1>9, <2>3 DEF ReadColumns, Reads
  <2> QED BY <1>9, <2>1, <2>2, <2>3 DEF ReadColumns
<1>10. CASE SkipRows
  BY <1>10 DEF SkipRows, Reads, SeveralResults, ResultEnds, AfterResult, HandOut, Hear,
        NextResult, Complete, Return, GiveUpRows
<1>11. CASE ReadPingOK
  BY <1>11 DEF ReadPingOK, Reads, AfterResult, Hear, Complete, Return, GiveUpRows
<1>12. CASE ReadPrepareResult \/ ReadDefinitions
  BY <1>12 DEF ReadPrepareResult, Reads, Complete, Return, GiveUpRows, ReadDefinitions
<1>13. CASE ReadError
  BY <1>13 DEF ReadError, Reads, Silence, Return, Cleanup, Hear, RowsAfterError, GiveUpRows
<1>14. CASE ReadStale
  BY <1>14 DEF ReadStale, Close, Cleanup, Silence, Return, RowsAfterError, GiveUpRows
<1>15. CASE ReadFails
  BY <1>15 DEF ReadFails, Close, Cleanup, Silence, Return, ClosedError, RowsAfterError,
        GiveUpRows
<1>16. CASE IgnoreAnswer
  BY <1>16 DEF IgnoreAnswer, Reads, Return, RowsAfterError, GiveUpRows
<1>17. CASE ReadTextRow \/ ReadBinaryRow
  BY <1>17 DEF ReadTextRow, ReadRow, Reads, Return, AfterResult, ReadBinaryRow
<1>18. CASE ReadHeadAsRow
  BY <1>18 DEF ReadHeadAsRow, Return
<1>19. CASE NextSetup \/ NextCharset
  BY <1>19 DEF NextSetup, SetupAfter, NextCharset
<1>20. CASE Abandon
  BY <1>20 DEF Abandon, Close, Cleanup, Silence
<1>21. CASE Ready
  BY <1>21 DEF Ready, Return
<1>22. CASE Finish
  BY <1>22 DEF Finish, FinishWatch, AfterFinish
<1>23. CASE CheckPrepared
  BY <1>23 DEF CheckPrepared
<1>24. CASE WriteStatementClose
  BY <1>24 DEF WriteStatementClose, Close, Cleanup, Silence
<1>25. CASE Drain
  BY <1>25 DEF Drain, GiveUpRows, Return, ClosedError, Readable
<1>26. CASE EndTx \/ CloseStatement
  BY <1>26 DEF EndTx, ClosedError, CloseStatement
<1>27. CASE NextRow
  BY <1>27 DEF NextRow, OnRows, RowsAnswer, Readable, ClosedError
<1>28. CASE NextResultSet
  BY <1>28 DEF NextResultSet, OnRows, RowsAnswer, Readable, ClosedError
<1>29. CASE CloseRows
  BY <1>29 DEF CloseRows, OnRows
<1>30. CASE TakeContext
  BY <1>30 DEF TakeContext
<1>31. CASE SeeDone \/ SetCanceled
  BY <1>31 DEF SeeDone, SetCanceled
<1>32. CASE SeeClosed
  BY <1>32 DEF SeeClosed
<1>33. CASE SwapClosed
  BY <1>33 DEF SwapClosed
<1>34. CASE CloseChannel \/ CloseSocket
  BY <1>34 DEF CloseChannel, CloseSocket, Silence
<1>35. CASE IsValid \/ ResetSession
  BY <1>35 DEF IsValid, Discard, ResetSession
<1>36. CASE Quit
  BY <1>36 DEF Quit, Close, Cleanup, Silence
<1>37. CASE \E c \in Ctx \cup {Background} : Connect(c)
  BY <1>37 DEF Connect, Close, Cleanup, Silence
<1>38. CASE \E c \in Ctx \cup {Background}, o \in WithContext : Enter(o, c)
  BY <1>38 DEF Enter, WatchCancel, Close, Cleanup, Silence
<1>39. CASE \E c \in Ctx : Cancel(c)
  BY <1>39 DEF Cancel
<1>40. CASE UNCHANGED vars
  BY <1>40 DEF vars
<1> QED
  BY <1>1, <1>2, <1>3, <1>4, <1>5, <1>6, <1>7, <1>8, <1>9, <1>10, <1>11, <1>12, <1>13,
        <1>14, <1>15, <1>16, <1>17, <1>18, <1>19, <1>20, <1>21, <1>22, <1>23, <1>24, <1>25,
        <1>26, <1>27, <1>28, <1>29, <1>30, <1>31, <1>32, <1>33, <1>34, <1>35, <1>36, <1>37,
        <1>38, <1>39, <1>40 DEF Next, Handshake, Writes, Reading, Local, Calls, Watcher,
        Environment

\* The error of a broken connection is given only when the caller has closed it.
LEMMA ReportPreserved ==
  ASSUME IInv, [Next]_vars
  PROVE  CancelIsReported'
<1> USE ConstantsAssumption DEF IInv, Connecting, Setup, WithContext, WithoutContext, Idle,
        Waiting, Writing, Phase, Handshaking, WatcherFollows, CancelIsReported, Resting,
        TypeOK, LinkTypeOK, call, watch, link, wire, stream, cursor
<1>1. CASE ReadHandshakePacket \/ WriteHandshakeResponsePacket \/ HandleAuthResult \/
          WriteAuthSwitchPacket
  BY <1>1 DEF ReadHandshakePacket, Shake, WriteHandshakeResponsePacket, HandleAuthResult,
        AfterPlugin, WriteAuthSwitchPacket
<1>2. CASE HandshakeFails
  BY <1>2 DEF HandshakeFails, Return, Close, Cleanup, Silence
<1>3. CASE WriteFrame \/ WriteCommandLongData
  BY <1>3 DEF WriteFrame, WriteCommandLongData
<1>4. CASE WriteCommandPacket \/ WriteExecutePacket
  BY <1>4 DEF WriteCommandPacket, Send, FirstReply, Hear, WriteExecutePacket
<1>5. CASE WriteRefused
  BY <1>5 DEF WriteRefused, Return, WriteError, MarkBadConn
<1>6. CASE WriteFails
  BY <1>6 DEF WriteFails, Return, WriteError, MarkBadConn, Close, Cleanup, Silence, Hear,
        RowsAfterError, GiveUpRows
<1>7. CASE ReadOK
  BY <1>7 DEF ReadOK, Reads, SeveralStatements, ResultEnds, AfterResult, HandOut, Hear,
        NextResult, Complete, Return, GiveUpRows
<1>8. CASE ReadColumnCount \/ ReadInFile \/ Upload
  BY <1>8 DEF ReadColumnCount, Reads, ReadInFile, SeveralStatements, Upload
<1>9. CASE ReadColumns
  BY <1>9 DEF ReadColumns, Reads, HandOut, Return
<1>10. CASE SkipRows
  BY <1>10 DEF SkipRows, Reads, SeveralResults, ResultEnds, AfterResult, HandOut, Hear,
        NextResult, Complete, Return, GiveUpRows
<1>11. CASE ReadPingOK
  BY <1>11 DEF ReadPingOK, Reads, AfterResult, Hear, Complete, Return, GiveUpRows
<1>12. CASE ReadPrepareResult \/ ReadDefinitions
  BY <1>12 DEF ReadPrepareResult, Reads, Complete, Return, GiveUpRows, ReadDefinitions
<1>13. CASE ReadError
  BY <1>13 DEF ReadError, Reads, Silence, Return, Cleanup, Hear, RowsAfterError, GiveUpRows
<1>14. CASE ReadStale
  BY <1>14 DEF ReadStale, Close, Cleanup, Silence, Return, RowsAfterError, GiveUpRows
<1>15. CASE ReadFails
  BY <1>15 DEF ReadFails, Close, Cleanup, Silence, Return, ClosedError, RowsAfterError,
        GiveUpRows
<1>16. CASE IgnoreAnswer
  BY <1>16 DEF IgnoreAnswer, Reads, Return, RowsAfterError, GiveUpRows
<1>17. CASE ReadTextRow \/ ReadBinaryRow
  BY <1>17 DEF ReadTextRow, ReadRow, Reads, Return, AfterResult, ReadBinaryRow
<1>18. CASE ReadHeadAsRow
  BY <1>18 DEF ReadHeadAsRow, Return
<1>19. CASE NextSetup \/ NextCharset
  BY <1>19 DEF NextSetup, SetupAfter, NextCharset
<1>20. CASE Abandon
  BY <1>20 DEF Abandon, Close, Cleanup, Silence
<1>21. CASE Ready
  BY <1>21 DEF Ready, Return
<1>22. CASE Finish
  BY <1>22 DEF Finish, FinishWatch, AfterFinish
<1>23. CASE CheckPrepared
  BY <1>23 DEF CheckPrepared
<1>24. CASE WriteStatementClose
  BY <1>24 DEF WriteStatementClose, Close, Cleanup, Silence
<1>25. CASE Drain
  BY <1>25 DEF Drain, GiveUpRows, Return, ClosedError, Readable
<1>26. CASE EndTx \/ CloseStatement
  BY <1>26 DEF EndTx, ClosedError, CloseStatement
<1>27. CASE NextRow
  BY <1>27 DEF NextRow, OnRows, RowsAnswer, Readable, ClosedError
<1>28. CASE NextResultSet
  BY <1>28 DEF NextResultSet, OnRows, RowsAnswer, Readable, ClosedError
<1>29. CASE CloseRows
  BY <1>29 DEF CloseRows, OnRows
<1>30. CASE TakeContext
  BY <1>30 DEF TakeContext
<1>31. CASE SeeDone \/ SetCanceled
  BY <1>31 DEF SeeDone, SetCanceled
<1>32. CASE SeeClosed
  BY <1>32 DEF SeeClosed
<1>33. CASE SwapClosed
  BY <1>33 DEF SwapClosed
<1>34. CASE CloseChannel \/ CloseSocket
  BY <1>34 DEF CloseChannel, CloseSocket, Silence
<1>35. CASE IsValid \/ ResetSession
  BY <1>35 DEF IsValid, Discard, ResetSession
<1>36. CASE Quit
  BY <1>36 DEF Quit, Close, Cleanup, Silence
<1>37. CASE \E c \in Ctx \cup {Background} : Connect(c)
  BY <1>37 DEF Connect, Close, Cleanup, Silence
<1>38. CASE \E c \in Ctx \cup {Background}, o \in WithContext : Enter(o, c)
  BY <1>38 DEF Enter, WatchCancel, Close, Cleanup, Silence
<1>39. CASE \E c \in Ctx : Cancel(c)
  BY <1>39 DEF Cancel
<1>40. CASE UNCHANGED vars
  BY <1>40 DEF vars
<1> QED
  BY <1>1, <1>2, <1>3, <1>4, <1>5, <1>6, <1>7, <1>8, <1>9, <1>10, <1>11, <1>12, <1>13,
        <1>14, <1>15, <1>16, <1>17, <1>18, <1>19, <1>20, <1>21, <1>22, <1>23, <1>24, <1>25,
        <1>26, <1>27, <1>28, <1>29, <1>30, <1>31, <1>32, <1>33, <1>34, <1>35, <1>36, <1>37,
        <1>38, <1>39, <1>40 DEF Next, Handshake, Writes, Reading, Local, Calls, Watcher,
        Environment

\* A connection that is not yet made.
LEMMA InitIInv == Init => IInv
<1> SUFFICES ASSUME Init PROVE IInv
  OBVIOUS
<1> USE ConstantsAssumption DEF Init
<1>1. TypeOK
  BY DEF TypeOK, CallTypeOK, WatchTypeOK, LinkTypeOK, WireTypeOK, CursorTypeOK, HeardTypeOK,
         Operations, Answers, Replies, Outcomes, Calling, Idle
<1>2. Phase
  BY DEF Phase, Handshaking, Connecting, Setup, WithContext
<1>3. WatcherFollows /\ WatchedInUse /\ InTouch /\ CancelIsReported
  BY DEF WatcherFollows, WatchedInUse, InTouch, CancelIsReported, Resting
<1>4. RetryInv /\ StreamInv
  BY DEF RetryInv, WithContext, StreamInv
<1> QED BY <1>1, <1>2, <1>3, <1>4 DEF IInv

\* The parts of the invariant, each kept by a lemma of its own, are kept together.
LEMMA StepIInv == IInv /\ [Next]_vars => IInv'
<1> SUFFICES ASSUME IInv, [Next]_vars PROVE IInv'
  OBVIOUS
<1> QED
  BY TypePreserved, PhasePreserved, WatcherPreserved, WatchedPreserved, TouchPreserved,
     RetryPreserved, StreamPreserved, ReportPreserved DEF IInv

\* From which every theorem below follows.
LEMMA Invariance == Spec => []IInv
  BY InitIInv, StepIInv, PTL DEF Spec

\* Only the watcher, and in one step of it, closes the connection in its own name.
LEMMA ClosedByWatcher ==
  ASSUME Next, closed = "no", closed' = "watcher"
  PROVE  SwapClosed
<1> USE DEF watch, link, stream
<1>1. CASE Handshake \/ HandshakeFails
  BY <1>1 DEF Handshake, HandshakeFails, ReadHandshakePacket, Shake,
        WriteHandshakeResponsePacket, HandleAuthResult, WriteAuthSwitchPacket, Close,
        Cleanup, Silence
<1>2. CASE Writes \/ WriteFails
  BY <1>2 DEF Writes, WriteFails, WriteFrame, WriteCommandLongData, WriteCommandPacket,
        Send, WriteExecutePacket, WriteRefused, Close, Cleanup, Silence
<1>3. CASE Reading \/ ReadFails
  BY <1>3 DEF Reading, ReadFails, ReadOK, ReadColumnCount, ReadColumns, SkipRows,
        ReadPingOK, ReadPrepareResult, ReadDefinitions, ReadError, Silence, Cleanup,
        ReadStale, Close, ReadInFile, Upload, IgnoreAnswer, ReadTextRow, ReadRow,
        ReadBinaryRow, ReadHeadAsRow
<1>4. CASE Local
  BY <1>4 DEF Local, NextSetup, NextCharset, Abandon, Close, Cleanup, Silence, Ready,
        Finish, CheckPrepared, WriteStatementClose, Drain
<1>5. CASE Calls
  BY <1>5 DEF Calls, EndTx, CloseStatement, NextRow, OnRows, NextResultSet, CloseRows,
        Connect, Close, Cleanup, Enter, WatchCancel
<1>6. CASE Watcher
  BY <1>6 DEF Watcher, TakeContext, SeeDone, SeeClosed, SetCanceled, SwapClosed,
        CloseChannel, CloseSocket, Silence
<1>7. CASE Environment
  BY <1>7 DEF Environment, IsValid, Discard, ResetSession, Quit, Close, Cleanup, Silence,
        Cancel
<1> QED BY <1>1, <1>2, <1>3, <1>4, <1>5, <1>6, <1>7 DEF Next

\* Only one step sets the error of the context.
LEMMA CanceledBySet ==
  ASSUME Next
  PROVE  SetCanceled \/ UNCHANGED canceled
<1> USE DEF watch
<1>1. CASE Handshake \/ HandshakeFails
  BY <1>1 DEF Handshake, HandshakeFails, ReadHandshakePacket, Shake,
        WriteHandshakeResponsePacket, HandleAuthResult, WriteAuthSwitchPacket, Close,
        Cleanup, Silence
<1>2. CASE Writes \/ WriteFails
  BY <1>2 DEF Writes, WriteFails, WriteFrame, WriteCommandLongData, WriteCommandPacket,
        Send, WriteExecutePacket, WriteRefused, Close, Cleanup, Silence
<1>3. CASE Reading \/ ReadFails
  BY <1>3 DEF Reading, ReadFails, ReadOK, ReadColumnCount, ReadColumns, SkipRows,
        ReadPingOK, ReadPrepareResult, ReadDefinitions, ReadError, Silence, Cleanup,
        ReadStale, Close, ReadInFile, Upload, IgnoreAnswer, ReadTextRow, ReadRow,
        ReadBinaryRow, ReadHeadAsRow
<1>4. CASE Local
  BY <1>4 DEF Local, NextSetup, NextCharset, Abandon, Close, Cleanup, Silence, Ready,
        Finish, CheckPrepared, WriteStatementClose, Drain
<1>5. CASE Calls
  BY <1>5 DEF Calls, EndTx, CloseStatement, NextRow, OnRows, NextResultSet, CloseRows,
        Connect, Close, Cleanup, Enter, WatchCancel
<1>6. CASE Watcher
  BY <1>6 DEF Watcher, TakeContext, SeeDone, SeeClosed, SetCanceled, SwapClosed,
        CloseChannel, CloseSocket, Silence
<1>7. CASE Environment
  BY <1>7 DEF Environment, IsValid, Discard, ResetSession, Quit, Close, Cleanup, Silence,
        Cancel
<1> QED BY <1>1, <1>2, <1>3, <1>4, <1>5, <1>6, <1>7 DEF Next

-----------------------------------------------------------------------------
(* The theorems.                                                            *)

\* Every variable keeps its kind, and the channel is closed only after mc.closed was set.
THEOREM TypeCorrect == Spec => []TypeOK
<1>1. IInv => TypeOK
  BY DEF IInv
<1> QED BY <1>1, Invariance, PTL

\* A broken connection is reported as such only if the caller itself closed it: what a
\* cancellation broke is answered with the context's error (cancel, readPacket).
THEOREM CancelIsAlwaysReported == Spec => []CancelIsReported
<1>1. IInv => CancelIsReported
  BY DEF IInv
<1> QED BY <1>1, Invariance, PTL

\* On no path does an operation return and leave the watcher with its context (finish).
THEOREM FreeIsUnwatched == Spec => []UnwatchedWhenFree
<1>1. IInv => UnwatchedWhenFree
  BY DEF IInv, UnwatchedWhenFree, Phase, WatcherFollows, WatchedInUse, Resting, Connecting,
         Setup, WithContext, TypeOK, LinkTypeOK
<1> QED BY <1>1, Invariance, PTL

\* Whatever an operation waits for, the end of its context reaches the watcher, and a close
\* that was begun reaches the socket.
THEOREM CancelIsAlwaysHeard == Spec => []CancelIsHeard
<1>1. IInv => CancelIsHeard
  <2> SUFFICES ASSUME IInv PROVE CancelIsHeard
    OBVIOUS
  <2>1. ASSUME closed = "no", ctx \in Ctx, op \in Connecting \cup WithContext,
               pc \in Calling \ {"check", "stmtclose"}
        PROVE  \/ inbox = ctx /\ wpc = "idle"
               \/ inbox = None /\ wctx = ctx /\ wpc \in {"watching", "cancel", "swap"}
    <3>1. watching /\ Watched = ctx
      BY <2>1 DEF IInv, InTouch, WatchedInUse, Connecting, Setup, WithContext, Calling, Waiting,
                  Writing
    <3> QED BY <2>1, <3>1 DEF IInv, InTouch, Watched
  <2> QED BY <2>1 DEF IInv, InTouch, CancelIsHeard
<1> QED BY <1>1, Invariance, PTL

\* Between operations the stream holds nothing unread (discardResults, Rows.Close).
THEOREM StreamStaysClean == Spec => []StreamIsClean
<1>1. IInv => StreamIsClean
  BY DEF IInv, StreamIsClean, StreamInv, Settled, Pending, Handshaking, Waiting
<1> QED BY <1>1, Invariance, PTL

\* driver.ErrBadConn, after which database/sql repeats the operation, is answered only when
\* the server has not the whole command (markBadConn).
THEOREM BadConnIsAlwaysUnheard == Spec => []BadConnIsUnheard
<1>1. IInv => BadConnIsUnheard
  BY DEF IInv, BadConnIsUnheard, Retried, RetryInv
<1> QED BY <1>1, Invariance, PTL

\* The watcher closes the connection only for a context that is in use (startWatcher).
THEOREM OnlyOwnContextAlwaysCloses == Spec => OnlyOwnContextCloses
<1>1. IInv /\ [Next]_vars => [closed = "no" /\ closed' = "watcher" => wctx \in InUse]_vars
  <2> SUFFICES ASSUME IInv, Next, closed = "no", closed' = "watcher"
               PROVE  wctx \in InUse
    OBVIOUS
  <2>1. SwapClosed
    BY ClosedByWatcher
  <2> QED
    BY <2>1 DEF SwapClosed, IInv, WatcherFollows, WatchedInUse, Watched, InUse, Resting
<1> QED BY <1>1, Invariance, PTL DEF Spec, OnlyOwnContextCloses

\* A second error never meets mc.canceled, where it would panic (finish, watchCancel).
THEOREM CanceledOnlyOnce == Spec => CancelledOnce
<1>1. IInv /\ [Next]_vars => [canceled # None => canceled' = canceled]_vars
  <2> SUFFICES ASSUME IInv, Next, canceled # None
               PROVE  canceled' = canceled
    OBVIOUS
  <2>1. SetCanceled \/ UNCHANGED canceled
    BY CanceledBySet
  <2> QED
    BY <2>1 DEF SetCanceled, IInv, WatcherFollows
<1> QED BY <1>1, Invariance, PTL DEF Spec, CancelledOnce
=============================================================================

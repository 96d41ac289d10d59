------------------------------ MODULE MysqlConn ------------------------------
(***************************************************************************)
(* One connection of the Go MySQL driver whose source is distributed with  *)
(* the Windows runtime: the goroutine that calls the driver, the watcher   *)
(* goroutine that closes the connection when a context is done, and the    *)
(* server's side of the conversation, one packet at a time.                *)
(*                                                                         *)
(* database/sql (external) calls a connection from one goroutine at a      *)
(* time.  It may begin an operation while the rows of an earlier one are   *)
(* still open (two statements of one transaction).                         *)
(***************************************************************************)

CONSTANTS
    Ctx,         \* contexts that can be cancelled
    Background,  \* a context that never is
    None,
    Overlapping  \* the operations that callers begin while rows are open

ASSUME ConstantsAssumption ==
    /\ None \notin Ctx \cup {Background}
    /\ Background \notin Ctx

VARIABLES
    pc, op, ctx, answer,             \* the caller: where it is, in which operation
    watching, inbox, wpc, wctx,      \* mc.watching, the channel mc.watcher, its goroutine
    canceled,                        \* mc.canceled, by the context it came from
    closed, closech, socket,         \* mc.closed (by whom), mc.closech, the connection
    more,                            \* mc.status has statusMoreResultsExists
    rows, attached, done, owner,     \* the rows the caller holds: mysqlRows, its mc, rs.done
                                     \* and the context they were asked for with
    reply, stale,                    \* what the server sends next; is it for an older command
    heard,                           \* what the server made of the current command
    trouble,                         \* what left packets unread (history)
    cancelled                        \* the contexts that are done

call   == <<pc, op, ctx, answer>>
watch  == <<watching, inbox, wpc, wctx, canceled>>
link   == <<closed, closech, socket>>
wire   == <<reply, stale>>
cursor == <<rows, attached, done, owner>>
stream == <<more, cursor, heard, trouble>>
vars   == <<call, watch, link, wire, stream, cancelled>>

-----------------------------------------------------------------------------

\* The commands that Connect sends once it is authenticated; a second charset is tried when
\* the first is refused.
Setup == {"maxpacket", "names", "fallback", "params"}
Connecting == Setup \cup {"connect"}

\* Operations of database/sql that get a context, and those of rows, transactions and
\* statements that get none.  A transaction that sets its isolation level is two commands.
WithContext == {"ping", "isolation", "begin", "exec", "query", "prepare", "execute", "select"}
WithoutContext == {"next", "nextset", "close", "commit", "closestmt"}

Fetching == {"query", "select"}              \* hand out rows
Prepared == {"execute", "select"}            \* run a prepared statement
Text == {"exec", "query"}                    \* may hold several statements
Sized == {"exec", "query", "prepare", "execute", "select"}  \* as long as the caller likes

Waiting == {"tls", "greeting", "auth", "switched", "key", "authok", "header", "columns",
            "rows", "row", "ok", "prepared", "definitions", "uploaded", "ignored"}
Writing == {"request", "login", "switch", "askkey", "secret", "write", "upload"}
Calling == Waiting \cup Writing
             \cup {"ready", "again", "setup", "abandon", "finish", "drain", "check", "stmtclose"}
Idle == {"new", "free", "discard", "gone", "confused"}

GiveUpRows == rows' = "none" /\ attached' = FALSE /\ done' = FALSE /\ owner' = None

\* What may follow: a command that holds several statements, or a procedure that a prepared
\* statement calls, which gives several sets of rows and then one OK packet.
SeveralStatements == op \in Text \/ (op \in {"nextset", "close"} /\ rows = "text")
SeveralResults == op \in Text \cup {"execute", "nextset", "close"}

-----------------------------------------------------------------------------
(* Closing.  cleanup runs once: whoever swaps mc.closed closes the channel  *)
(* and the socket.  What the server still sends is lost.                    *)

\* Mistake: the channel is closed by a caller that does not own the swap of mc.closed.
CleanupUnmarked == closech' = TRUE /\ socket' = "shut" /\ UNCHANGED closed

Cleanup ==
    IF closed = "no"
    THEN closed' = "caller" /\ closech' = TRUE /\ socket' = "shut"
    ELSE UNCHANGED link

Silence == reply' = "none" /\ stale' = FALSE

Close == Cleanup /\ IF closed = "no" THEN Silence ELSE UNCHANGED wire

\* Mistake: a connection found closed is always worth another try.
ClosedErrorRetried == IF canceled # None THEN "ctx" ELSE "bad"

\* error(): a cancelled connection reports the context's error.
ClosedError == IF canceled # None THEN "ctx" ELSE "invalid"

\* markBadConn: only errBadConnNoWrite may be answered with driver.ErrBadConn.
MarkBadConn(e) == IF e = "nowrite" THEN "bad" ELSE e

\* Mistake: a failing query does not call finish.
ReturnUnfinished(a) ==
    /\ answer' = a
    /\ \/ op \notin Connecting \cup WithoutContext \cup {"query"} /\ pc' = "finish" /\ UNCHANGED <<op, ctx>>
       \/ op \in WithoutContext \cup {"query"} /\ pc' = "free" /\ op' = "idle" /\ ctx' = None
       \/ op \in Connecting /\ pc' = "abandon" /\ UNCHANGED <<op, ctx>>
       \/ op = "names" /\ pc' = "again" /\ UNCHANGED <<op, ctx>>

\* The operation ends with answer a.  Most operations then call finish; those of rows and
\* transactions do not, and a failing Connect first closes the connection.
Return(a) ==
    /\ answer' = a
    /\ \/ op \notin Connecting \cup WithoutContext /\ pc' = "finish" /\ UNCHANGED <<op, ctx>>
       \/ op \in WithoutContext /\ pc' = "free" /\ op' = "idle" /\ ctx' = None
       \/ op \in Connecting /\ pc' = "abandon" /\ UNCHANGED <<op, ctx>>
       \/ op = "names" /\ pc' = "again" /\ UNCHANGED <<op, ctx>>

\* What the server made of the command, for the operations that database/sql may repeat.
Hear(h) == heard' = IF op \in WithContext THEN h ELSE heard

\* A command is complete: the next one of the same operation, or its end.
Complete ==
    \/ op \in Setup /\ pc' = "setup" /\ UNCHANGED <<op, ctx, answer>>
    \/ op = "isolation" /\ pc' = "ready" /\ op' = "begin" /\ UNCHANGED <<ctx, answer>>
    \/ op \notin Setup \cup {"isolation"} /\ Return("ok")

-----------------------------------------------------------------------------
(* Connect.                                                                 *)

\* Dial, start the watcher, watch the context.
Connect(c) ==
    /\ pc = "new"
    /\ op' = "connect"
    /\ \/ /\ pc' = "gone" /\ answer' = "error"
          /\ UNCHANGED <<ctx, watching, inbox, wpc, link, wire>>
       \/ /\ c \in cancelled
          /\ pc' = "gone" /\ answer' = "ctx" /\ wpc' = "idle" /\ Close
          /\ UNCHANGED <<ctx, watching, inbox>>
       \/ /\ c \notin cancelled
          /\ pc' = "greeting" /\ ctx' = c /\ wpc' = "idle" /\ socket' = "up"
          /\ IF c = Background
             THEN UNCHANGED <<watching, inbox>>
             ELSE watching' = TRUE /\ inbox' = c
          /\ UNCHANGED <<answer, closed, closech, wire>>
    /\ UNCHANGED <<wctx, canceled, stream, cancelled>>

\* Moves of the handshake: from a packet read, or to a packet written.
Shake(from, to) ==
    /\ pc = from /\ socket = "up"
    /\ pc' \in to
    /\ UNCHANGED <<op, ctx, answer, watch, link, wire, stream, cancelled>>

\* The greeting names the server's capabilities; with TLS a request goes first.
ReadHandshakePacket == Shake("greeting", {"request", "login"})
WriteHandshakeResponsePacket ==
    Shake("request", {"tls"}) \/ Shake("tls", {"login"}) \/ Shake("login", {"auth"})

\* What follows the answer of an authentication plugin: nothing, an OK packet, or a password
\* in clear or encrypted with a key that may have to be asked for.
AfterPlugin == {"setup", "authok", "secret", "askkey"}

\* The server may ask for another plugin once.
HandleAuthResult ==
    \/ Shake("auth", AfterPlugin \cup {"switch"})
    \/ Shake("switched", AfterPlugin)
    \/ Shake("askkey", {"key"}) \/ Shake("key", {"secret"})
    \/ Shake("authok", {"setup"})
WriteAuthSwitchPacket == Shake("switch", {"switched"}) \/ Shake("secret", {"authok"})

\* The server refuses, or the client cannot go on with what it was sent.  A read-only server
\* is left when the configuration (RejectReadOnly) says so.
HandshakeFails ==
    /\ pc \in {"tls", "greeting", "auth", "switched", "key", "authok"} /\ socket = "up"
    /\ \/ Return("error") /\ UNCHANGED <<link, wire>>
       \/ Return("bad") /\ Close
    /\ UNCHANGED <<watch, stream, cancelled>>

SetupAfter(o) ==
    (IF o = "connect" THEN {"maxpacket"} ELSE {})
      \cup (IF o \in {"connect", "maxpacket"} THEN {"names"} ELSE {})
      \cup (IF o # "params" THEN {"params"} ELSE {})

\* max_allowed_packet, SET NAMES and the parameters of the data source name, each only when
\* the configuration asks for it.
NextSetup ==
    /\ pc = "setup"
    /\ \/ \E o \in SetupAfter(op) :
            op' = o /\ pc' = "write" /\ heard' = "nothing" /\ UNCHANGED answer
       \/ pc' = "finish" /\ answer' = "ok" /\ UNCHANGED <<op, heard>>
    /\ UNCHANGED <<ctx, watch, link, more, cursor, wire, trouble, cancelled>>

NextCharset ==
    /\ pc = "again"
    /\ op' = "fallback" /\ pc' = "write" /\ heard' = "nothing"
    /\ UNCHANGED <<ctx, answer, watch, link, more, cursor, wire, trouble, cancelled>>

\* A failing Connect closes the connection before its deferred finish.
Abandon ==
    /\ pc = "abandon"
    /\ Close
    /\ pc' = "finish"
    /\ UNCHANGED <<op, ctx, answer, watch, stream, cancelled>>

-----------------------------------------------------------------------------
(* Operations begin and end.                                                *)

\* watchCancel.  It is reached with mc.watching set when the connection was cancelled, but
\* also while the rows of an operation with a context are open.
WatchCancel(o, c) ==
    \/ /\ watching
       /\ Close
       /\ pc' = "ready" /\ op' = o /\ ctx' = c /\ answer' = "none"
       /\ UNCHANGED <<watching, inbox>>
    \/ /\ ~watching /\ c \in cancelled
       /\ pc' = "free" /\ answer' = "ctx"
       /\ UNCHANGED <<op, ctx, watching, inbox, link, wire>>
    \/ /\ ~watching /\ c \notin cancelled
       /\ pc' = "ready" /\ op' = o /\ ctx' = c /\ answer' = "none"
       /\ IF c = Background
          THEN UNCHANGED <<watching, inbox>>
          ELSE inbox = None /\ watching' = TRUE /\ inbox' = c
       /\ UNCHANGED <<link, wire>>

\* Ping and BeginTx look at mc.closed before they watch, the others after.  Rows of an
\* earlier operation may be open; there is one cursor, so no second set of rows is asked for.
Enter(o, c) ==
    /\ pc = "free"
    /\ rows = "none" \/ o \in Overlapping \ Fetching
    /\ \/ /\ o \in {"ping", "isolation", "begin"} /\ closed # "no"
          /\ answer' = "bad"
          /\ UNCHANGED <<pc, op, ctx, watching, inbox, link, wire>>
       \/ /\ o \in {"ping", "isolation", "begin"} => closed = "no"
          /\ WatchCancel(o, c)
    /\ UNCHANGED <<wpc, wctx, canceled, stream, cancelled>>

Ready ==
    /\ pc = "ready"
    /\ heard' = "nothing"
    /\ \/ /\ op \notin {"ping", "isolation"} /\ closed # "no"
          /\ Return("bad")
       \/ /\ op \notin {"ping", "isolation"} => closed = "no"
          /\ pc' = "write" /\ UNCHANGED <<op, ctx, answer>>
    /\ UNCHANGED <<watch, link, more, cursor, wire, trouble, cancelled>>

\* Commit and Rollback; that a transaction is open makes no difference to the connection.
EndTx ==
    /\ pc = "free" /\ rows = "none"
    /\ \/ closed # "no" /\ answer' = ClosedError /\ UNCHANGED <<pc, op>>
       \/ closed = "no" /\ pc' = "write" /\ op' = "commit" /\ answer' = "none"
    /\ UNCHANGED <<ctx, watch, link, wire, stream, cancelled>>

\* Mistake: the watcher is left alone with the context it watches.
FinishWatchAway == watching' = FALSE /\ UNCHANGED <<wpc, wctx>>

\* Mistake: mc.watching is reset when the connection was found closed, too.
FinishWatchReset ==
    \/ ~watching /\ UNCHANGED <<watching, wpc, wctx>>
    \/ watching /\ wpc = "watching" /\ watching' = FALSE /\ wpc' = "idle" /\ wctx' = None
    \/ watching /\ closech /\ watching' = FALSE /\ UNCHANGED <<wpc, wctx>>

\* finish: hand over to the watcher, or see that the connection is closed.  The answer is
\* forgotten when the caller has it.
FinishWatch ==
    \/ ~watching /\ UNCHANGED <<watching, wpc, wctx>>
    \/ watching /\ wpc = "watching" /\ watching' = FALSE /\ wpc' = "idle" /\ wctx' = None
    \/ watching /\ closech /\ UNCHANGED <<watching, wpc, wctx>>

AfterFinish ==
    IF op = "close" THEN "drain"
    ELSE IF op = "prepare" /\ answer = "ok" THEN "check"
    ELSE IF op \in Connecting /\ answer # "ok" THEN "gone"
    ELSE "free"

Finish ==
    /\ pc = "finish"
    /\ FinishWatch
    /\ pc' = AfterFinish
    /\ IF AfterFinish \in Idle
       THEN op' = "idle" /\ ctx' = None /\ answer' = "none"
       ELSE UNCHANGED <<op, ctx, answer>>
    /\ heard' = "nothing"
    /\ owner' = IF op = "close" THEN None ELSE owner
    /\ UNCHANGED <<rows, attached, done, inbox, canceled, link, wire, more, trouble, cancelled>>

\* PrepareContext gives the statement back when the context ended meanwhile.
CheckPrepared ==
    /\ pc = "check"
    /\ IF ctx \in cancelled
       THEN pc' = "stmtclose" /\ answer' = "ctx" /\ UNCHANGED <<op, ctx>>
       ELSE pc' = "free" /\ op' = "idle" /\ ctx' = None /\ UNCHANGED answer
    /\ UNCHANGED <<watch, link, wire, stream, cancelled>>

\* Close of a statement: a command without a reply.
CloseStatement ==
    /\ pc = "free" /\ rows = "none"
    /\ pc' = "stmtclose" /\ op' = "closestmt" /\ answer' = "none"
    /\ UNCHANGED <<ctx, watch, link, wire, stream, cancelled>>

WriteStatementClose ==
    /\ pc = "stmtclose"
    /\ pc' = "free" /\ op' = "idle" /\ ctx' = None
    /\ answer' = IF answer = "none" THEN "ok" ELSE answer
    /\ UNCHANGED <<link, wire>> \/ Close
    /\ UNCHANGED <<watch, stream, cancelled>>

-----------------------------------------------------------------------------
(* Writing a packet.  One larger than a frame is written as two.            *)

\* What becomes of the rows when an operation on them fails: NextResultSet gives up the
\* flag for more results, and rows are closed even if Close fails.
RowsAfterError ==
    LET looking == op = "nextset" /\ pc \in {"header", "upload", "uploaded", "ignored"} IN
    \/ op = "close" /\ GiveUpRows /\ UNCHANGED more
    \/ looking /\ done' = TRUE /\ more' = FALSE /\ UNCHANGED <<rows, attached, owner>>
    \/ op # "close" /\ ~looking /\ UNCHANGED <<cursor, more>>

FirstReply(o) ==
    IF o = "ping" THEN "ok" ELSE IF o = "prepare" THEN "prepared" ELSE "header"

\* Prepare answers every error of its write with driver.ErrBadConn.
WriteError(e) ==
    IF op = "prepare" THEN "bad"
    ELSE IF (pc = "write" /\ op # "maxpacket") \/ (pc = "upload" /\ op = "exec")
         THEN MarkBadConn(e)
         ELSE e

WriteFrame ==
    /\ pc = "write" /\ socket = "up" /\ heard \in {"nothing", "data"} /\ op \in Sized
    /\ heard' = "part"
    /\ UNCHANGED <<call, watch, link, more, cursor, wire, trouble, cancelled>>

\* A large argument of a statement goes ahead in packets of its own; the server keeps it.
WriteCommandLongData ==
    /\ pc = "write" /\ socket = "up" /\ heard = "nothing" /\ op \in Prepared
    /\ heard' = "data"
    /\ UNCHANGED <<call, watch, link, more, cursor, wire, trouble, cancelled>>

\* The last frame.  Replies to an older command that are still to come come first; of
\* compressed packets those that were read ahead are dropped (syncSequence).
Send ==
    /\ pc = "write" /\ socket = "up"
    /\ Hear("whole")
    /\ pc' = FirstReply(op)
    /\ \/ reply' = FirstReply(op) /\ stale' = FALSE
       \/ reply # "none" /\ stale' = TRUE /\ UNCHANGED reply
    /\ UNCHANGED <<op, ctx, answer, watch, link, more, cursor, trouble, cancelled>>

WriteCommandPacket == op \notin Prepared /\ Send
WriteExecutePacket == op \in Prepared /\ Send

\* Nothing is written: unread packets are in the buffer, the packet is larger than the server
\* accepts, an argument cannot be converted, or there is no such isolation level; large
\* arguments before it are gone ahead.
WriteRefused ==
    /\ pc = "write" /\ heard \in {"nothing", "data"}
    /\ reply # "none" \/ op \in Sized \cup {"isolation"}
    /\ Return(WriteError("error"))
    /\ UNCHANGED <<watch, link, wire, stream, cancelled>>

\* The write fails, after some bytes or none.  writePacket compares pktLen with len(data)-4
\* to tell the first frame from the later ones, but the two shrink together: the test
\* always succeeds.
WriteFails ==
    /\ pc \in Writing
    /\ Close
    /\ \E some \in BOOLEAN :
         /\ Hear(IF some /\ heard \in {"nothing", "data"} THEN "part" ELSE heard)
         /\ Return(WriteError(IF canceled # None THEN "ctx"
                              ELSE IF some THEN "error" ELSE "nowrite"))
    /\ RowsAfterError
    /\ UNCHANGED <<watch, trouble, cancelled>>

-----------------------------------------------------------------------------
(* Reading a packet.                                                        *)

\* The packet does not come, for the network may fail at any time: the connection is closed.
ReadFails ==
    /\ pc \in Waiting
    /\ Close
    /\ Return(IF pc = "ignored" THEN "error" ELSE ClosedError)
    /\ RowsAfterError
    /\ UNCHANGED <<watch, heard, trouble, cancelled>>

\* A packet of an older command.  Its sequence number gives it away, except in compressed
\* packets (Config.compress), whose numbers are not looked at: it is taken for the answer,
\* and nothing that follows is modelled.  Whether a connection compresses is left open.
ReadStale ==
    /\ pc \in Waiting /\ socket = "up" /\ stale
    /\ \/ Close /\ Return("error") /\ RowsAfterError
       \/ pc' = "confused" /\ UNCHANGED <<op, ctx, answer, link, wire, cursor, more>>
    /\ UNCHANGED <<watch, heard, trouble, cancelled>>

\* The caller waits for a packet, and the server sends what it waits for.
Reads(stage) ==
    /\ pc = stage /\ socket = "up" /\ ~stale
    /\ reply = IF stage = "row" THEN "rows" ELSE IF stage = "ignored" THEN "uploaded" ELSE stage

\* The server's next packet after a result, by its flag for more results.
AfterResult(m) ==
    /\ more' = m
    /\ reply' = IF m THEN "header" ELSE "none"

\* handleErrorPacket.  A read-only server is left when the configuration says so.
ReadError ==
    /\ \E stage \in {"header", "rows", "row", "ok", "prepared", "uploaded"} : Reads(stage)
    /\ Silence
    /\ \/ /\ Return("error") /\ UNCHANGED link
          /\ heard' = IF heard = "whole" THEN "refused" ELSE heard
       \/ Return("bad") /\ Cleanup /\ Hear("readonly")
    /\ IF op = "next"
       THEN attached' = FALSE /\ UNCHANGED <<more, rows, done, owner>>
       ELSE RowsAfterError
    /\ UNCHANGED <<watch, trouble, cancelled>>

\* The operation succeeds with rows, whose result has columns or not.
HandOut(columns) ==
    /\ rows' = IF op = "query" THEN "text" ELSE "binary"
    /\ attached' = columns /\ done' = ~columns /\ owner' = ctx
    /\ answer' = "ok" /\ pc' = "free" /\ op' = "idle" /\ ctx' = None
    /\ heard' = "nothing"

\* Mistake: Exec returns after the first result.
NextResultKept(m) ==
    IF op \in {"nextset", "close"}
    THEN pc' = "header" /\ UNCHANGED <<op, ctx, answer, cursor>>
    ELSE Complete /\ UNCHANGED cursor

NextResult(m) ==
    \/ /\ ~m /\ op = "nextset"
       /\ attached' = FALSE /\ done' = TRUE /\ UNCHANGED <<rows, owner>> /\ Return("eof")
    \/ ~m /\ op = "close" /\ GiveUpRows /\ Complete
    \/ ~m /\ op \notin {"nextset", "close"} /\ Complete /\ UNCHANGED cursor
    \/ /\ m
       /\ pc' = "header" /\ UNCHANGED <<op, ctx, answer>>
       /\ done' = (op = "nextset" \/ done) /\ UNCHANGED <<rows, attached, owner>>

\* After a result without columns: on to the next one, or the end.
ResultEnds(m) ==
    /\ AfterResult(m)
    /\ IF op \in Fetching /\ (op = "select" \/ ~m)
       THEN HandOut(FALSE)
       ELSE Hear(IF heard = "upload" THEN heard ELSE "executed") /\ NextResult(m)

ReadOK ==
    /\ Reads("header") \/ Reads("uploaded")
    /\ \E m \in BOOLEAN : (m => SeveralStatements) /\ ResultEnds(m)
    /\ UNCHANGED <<watch, link, stale, trouble, cancelled>>

ReadColumnCount ==
    /\ Reads("header")
    /\ reply' = "columns" /\ pc' = "columns"
    /\ UNCHANGED <<op, ctx, answer, watch, link, more, cursor, stale, heard, trouble, cancelled>>

\* Operations that hand out rows keep the definitions and stop before the rows, the others
\* skip over both.
ReadColumns ==
    /\ Reads("columns")
    /\ reply' = "rows"
    /\ \/ op \in Fetching /\ HandOut(TRUE)
       \/ /\ op = "nextset"
          /\ done' = FALSE /\ Return("ok") /\ UNCHANGED <<rows, attached, owner, heard>>
       \/ /\ op \notin Fetching \cup {"nextset"}
          /\ pc' = "rows" /\ UNCHANGED <<op, ctx, answer, cursor, heard>>
    /\ UNCHANGED <<watch, link, more, stale, trouble, cancelled>>

\* skipRows, up to the end of the result; the value of getSystemVar may be unusable.
SkipRows ==
    /\ Reads("rows")
    /\ \/ \E m \in BOOLEAN :
            /\ m => SeveralResults
            /\ ResultEnds(m)
       \/ op = "maxpacket" /\ AfterResult(FALSE) /\ Return("error") /\ UNCHANGED <<cursor, heard>>
    /\ UNCHANGED <<watch, link, stale, trouble, cancelled>>

ReadPingOK ==
    /\ Reads("ok")
    /\ AfterResult(FALSE)
    /\ Hear("executed")
    /\ Complete
    /\ UNCHANGED <<watch, link, cursor, stale, trouble, cancelled>>

ReadPrepareResult ==
    /\ Reads("prepared")
    /\ \/ reply' = "definitions" /\ pc' = "definitions" /\ UNCHANGED <<op, ctx, answer>>
       \/ reply' = "none" /\ Complete
    /\ UNCHANGED <<watch, link, more, cursor, stale, heard, trouble, cancelled>>

ReadDefinitions ==
    /\ Reads("definitions")
    /\ reply' = "none" /\ Complete
    /\ UNCHANGED <<watch, link, more, cursor, stale, heard, trouble, cancelled>>

-----------------------------------------------------------------------------
(* LOAD DATA LOCAL INFILE.                                                  *)

ReadInFile ==
    /\ Reads("header") /\ SeveralStatements
    /\ reply' = "content" /\ pc' = "upload" /\ heard' = "upload"
    /\ UNCHANGED <<op, ctx, answer, watch, link, more, cursor, stale, trouble, cancelled>>

\* The content and the empty packet that ends it.  When the file cannot be opened or read,
\* the server's answer is read but not looked at.
Upload ==
    /\ pc = "upload" /\ reply = "content" /\ socket = "up"
    /\ reply' = "uploaded"
    /\ pc' \in {"uploaded", "ignored"}
    /\ UNCHANGED <<op, ctx, answer, watch, link, more, cursor, stale, heard, trouble, cancelled>>

\* What follows the answer that was not looked at stays unread.
IgnoreAnswer ==
    /\ Reads("ignored")
    /\ \E m \in BOOLEAN :
         /\ reply' = IF m THEN "header" ELSE "none"
         /\ trouble' = IF m THEN trouble \cup {"upload"} ELSE trouble
    /\ Return("error")
    /\ RowsAfterError
    /\ UNCHANGED <<watch, link, stale, heard, cancelled>>

-----------------------------------------------------------------------------
(* Rows in the caller's hands.                                              *)

OnRows ==
    /\ pc = "free" /\ rows # "none"
    /\ UNCHANGED <<watch, link, wire, more, heard, trouble, cancelled>>

\* Nothing to read: the rows are given up, or the connection is closed.
RowsAnswer ==
    \/ ~attached /\ answer' = "eof"
    \/ attached /\ closed # "no" /\ answer' = ClosedError
Readable == attached /\ closed = "no"

\* Next.  Text rows look at done before they read, binary rows do not.
NextRow ==
    /\ OnRows
    /\ LET over == done /\ rows = "text" IN
       \/ RowsAnswer /\ UNCHANGED <<pc, op, ctx>>
       \/ Readable /\ over /\ answer' = "eof" /\ UNCHANGED <<pc, op, ctx>>
       \/ /\ Readable /\ ~over
          /\ pc' = "row" /\ op' = "next" /\ ctx' = owner /\ answer' = "none"
    /\ UNCHANGED cursor

\* A row, whose values may be unusable, or the end of the result.
ReadRow ==
    /\ Reads("row")
    /\ \/ \E a \in {"ok", "error"} : Return(a) /\ UNCHANGED <<more, cursor, reply>>
       \/ \E m \in BOOLEAN :
            /\ AfterResult(m)
            /\ done' = TRUE /\ attached' = m /\ UNCHANGED <<rows, owner>>
            /\ Return("eof")
    /\ UNCHANGED <<watch, link, stale, heard, trouble, cancelled>>

ReadTextRow == rows = "text" /\ ReadRow
ReadBinaryRow == rows = "binary" /\ ReadRow

\* The head of the next result is taken for a row: a column count is malformed, and an OK
\* packet passes.
ReadHeadAsRow ==
    /\ pc = "row" /\ reply = "header" /\ socket = "up" /\ ~stale
    /\ trouble' = trouble \cup {"slip"}
    /\ \/ /\ reply' = "columns" /\ Return("error")
          /\ attached' = FALSE /\ UNCHANGED <<rows, done, owner>>
       \/ reply' = "none" /\ Return("ok") /\ UNCHANGED cursor
    /\ UNCHANGED <<watch, link, more, stale, heard, cancelled>>

\* NextResultSet: skip what is left of this result, then look for the next.
NextResultSet ==
    /\ OnRows
    /\ \/ RowsAnswer /\ UNCHANGED <<pc, op, ctx, cursor>>
       \/ /\ Readable /\ done /\ ~more
          /\ answer' = "eof" /\ attached' = FALSE
          /\ UNCHANGED <<pc, op, ctx, rows, done, owner>>
       \/ /\ Readable /\ (done => more)
          /\ pc' = IF done THEN "header" ELSE "rows"
          /\ op' = "nextset" /\ ctx' = owner /\ answer' = "none" /\ UNCHANGED cursor

\* Close first ends the watch, then reads what is left.
CloseRows ==
    /\ OnRows
    /\ pc' = "finish" /\ op' = "close" /\ answer' = "none"
    /\ UNCHANGED <<ctx, cursor>>

Drain ==
    /\ pc = "drain"
    /\ \/ ~attached /\ GiveUpRows /\ Return("ok")
       \/ attached /\ closed # "no" /\ GiveUpRows /\ Return(ClosedError)
       \/ Readable /\ done /\ ~more /\ GiveUpRows /\ Return("ok")
       \/ /\ Readable /\ (done => more)
          /\ pc' = IF done THEN "header" ELSE "rows"
          /\ UNCHANGED <<op, ctx, answer, cursor>>
    /\ UNCHANGED <<watch, link, wire, more, heard, trouble, cancelled>>
-----------------------------------------------------------------------------
(* The watcher goroutine.                                                   *)

TakeContext ==
    /\ wpc = "idle" /\ inbox # None
    /\ wpc' = "watching" /\ wctx' = inbox /\ inbox' = None
    /\ UNCHANGED <<watching, canceled, call, link, wire, stream, cancelled>>

\* Mistake: the connection is closed before the error of the context is set.
SeeDoneUnset ==
    /\ wpc = "watching" /\ wctx \in cancelled
    /\ wpc' = "swap"
    /\ UNCHANGED <<watching, inbox, wctx, canceled, call, link, wire, stream, cancelled>>

SeeDone ==
    /\ wpc = "watching" /\ wctx \in cancelled
    /\ wpc' = "cancel"
    /\ UNCHANGED <<watching, inbox, wctx, canceled, call, link, wire, stream, cancelled>>

\* Mistake: the watcher looks at mc.closech only while it watches a context.
SeeClosedWatching ==
    /\ wpc = "watching" /\ closech
    /\ wpc' = "gone" /\ wctx' = None
    /\ UNCHANGED <<watching, inbox, canceled, call, link, wire, stream, cancelled>>

SeeClosed ==
    /\ wpc \in {"idle", "watching"} /\ closech
    /\ wpc' = "gone" /\ wctx' = None
    /\ UNCHANGED <<watching, inbox, canceled, call, link, wire, stream, cancelled>>

\* cancel: the error is set before the connection is closed.
SetCanceled ==
    /\ wpc = "cancel"
    /\ canceled' = wctx /\ wpc' = "swap"
    /\ UNCHANGED <<watching, inbox, wctx, call, link, wire, stream, cancelled>>

SwapClosed ==
    /\ wpc = "swap"
    /\ IF closed = "no"
       THEN closed' = "watcher" /\ wpc' = "closech" /\ UNCHANGED wctx
       ELSE wpc' = "idle" /\ wctx' = None /\ UNCHANGED closed
    /\ UNCHANGED <<watching, inbox, canceled, closech, socket, call, wire, stream, cancelled>>

CloseChannel ==
    /\ wpc = "closech"
    /\ closech' = TRUE /\ wpc' = "shut"
    /\ UNCHANGED <<watching, inbox, wctx, canceled, closed, socket, call, wire, stream, cancelled>>

\* Mistake: mc.rawConn is not closed.
CloseSocketForgotten ==
    /\ wpc = "shut"
    /\ wpc' = "idle" /\ wctx' = None
    /\ UNCHANGED <<watching, inbox, canceled, link, call, wire, stream, cancelled>>

CloseSocket ==
    /\ wpc = "shut"
    /\ socket' = "shut" /\ wpc' = "idle" /\ wctx' = None /\ Silence
    /\ UNCHANGED <<watching, inbox, canceled, closed, closech, call, stream, cancelled>>

Watcher ==
    TakeContext \/ SeeDone \/ SeeClosed \/ SetCanceled \/ SwapClosed \/ CloseChannel \/ CloseSocket

-----------------------------------------------------------------------------
(* The pool and the contexts.                                               *)

Discard ==
    /\ pc = "free" /\ rows = "none"
    /\ pc' = "discard" /\ answer' = "none"
    /\ UNCHANGED <<op, ctx, watch, link, wire, stream, cancelled>>

\* A connection that goes back to the pool is closed, or has unread packets in its buffer.
IsValid == (closed # "no" \/ reply # "none") /\ Discard

\* Before it is used again its socket is looked at, too, which may be found dead
\* (connCheck).
ResetSession == Discard

\* Close says COM_QUIT if it can.
Quit ==
    /\ pc \in {"free", "discard"} /\ rows = "none"
    /\ Close
    /\ pc' = "gone" /\ answer' = "none"
    /\ UNCHANGED <<op, ctx, watch, stream, cancelled>>

Cancel(c) ==
    /\ c \notin cancelled
    /\ cancelled' = cancelled \cup {c}
    /\ UNCHANGED <<call, watch, link, wire, stream>>

-----------------------------------------------------------------------------

Init ==
    /\ pc = "new" /\ op = "idle" /\ ctx = None /\ answer = "none"
    /\ watching = FALSE /\ inbox = None /\ wpc = "gone" /\ wctx = None /\ canceled = None
    /\ closed = "no" /\ closech = FALSE /\ socket = "shut"
    /\ rows = "none" /\ attached = FALSE /\ done = FALSE /\ owner = None
    /\ more = FALSE /\ reply = "none" /\ stale = FALSE
    /\ heard = "nothing" /\ trouble = {}
    /\ cancelled = {}

Handshake ==
    \/ ReadHandshakePacket \/ WriteHandshakeResponsePacket
    \/ HandleAuthResult \/ WriteAuthSwitchPacket

Writes ==
    \/ WriteFrame \/ WriteCommandLongData \/ WriteCommandPacket \/ WriteExecutePacket
    \/ WriteRefused

Reading ==
    \/ ReadOK \/ ReadColumnCount \/ ReadColumns \/ SkipRows \/ ReadPingOK
    \/ ReadPrepareResult \/ ReadDefinitions \/ ReadError \/ ReadStale
    \/ ReadInFile \/ Upload \/ IgnoreAnswer
    \/ ReadTextRow \/ ReadBinaryRow \/ ReadHeadAsRow

\* What the caller's goroutine does without waiting for anybody but the watcher.
Local ==
    \/ NextSetup \/ NextCharset \/ Abandon \/ Ready \/ Finish
    \/ CheckPrepared \/ WriteStatementClose \/ Drain

Calls ==
    \/ \E c \in Ctx \cup {Background} : Connect(c) \/ \E o \in WithContext : Enter(o, c)
    \/ EndTx \/ CloseStatement \/ NextRow \/ NextResultSet \/ CloseRows

Environment == IsValid \/ ResetSession \/ Quit \/ \E c \in Ctx : Cancel(c)

Next ==
    \/ Handshake \/ HandshakeFails \/ Writes \/ WriteFails \/ Reading \/ ReadFails
    \/ Local \/ Calls \/ Watcher \/ Environment

\* Goroutines run, a select with several ready cases chooses at random, and reads and writes
\* on a closed socket fail.  Nobody else owes anything: the server may be silent for ever.
Fairness ==
    /\ WF_vars(Watcher) /\ SF_vars(SeeClosed)
    /\ WF_vars(Local)
    /\ WF_vars(socket = "shut" /\ (ReadFails \/ WriteFails))

Spec == Init /\ [][Next]_vars /\ Fairness

-----------------------------------------------------------------------------
(* What makes a connection correct.                                         *)

Operations == Connecting \cup WithContext \cup WithoutContext \cup {"idle"}
Answers == {"none", "ok", "eof", "ctx", "bad", "nowrite", "invalid", "error"}
Replies == {"none", "header", "columns", "rows", "ok", "prepared", "definitions", "content",
            "uploaded"}
Outcomes == {"nothing", "data", "part", "whole", "refused", "executed", "upload", "readonly"}

CallTypeOK ==
    /\ pc \in Calling \cup Idle /\ op \in Operations
    /\ ctx \in Ctx \cup {Background, None} /\ answer \in Answers
WatchTypeOK ==
    /\ watching \in BOOLEAN /\ inbox \in Ctx \cup {None} /\ wctx \in Ctx \cup {None}
    /\ wpc \in {"idle", "watching", "cancel", "swap", "closech", "shut", "gone"}
    /\ canceled \in Ctx \cup {None} /\ cancelled \subseteq Ctx
LinkTypeOK ==
    /\ closed \in {"no", "caller", "watcher"} /\ closech \in BOOLEAN /\ socket \in {"up", "shut"}
    /\ closech => closed # "no"
WireTypeOK == reply \in Replies /\ stale \in BOOLEAN
CursorTypeOK ==
    /\ rows \in {"none", "text", "binary"} /\ attached \in BOOLEAN /\ done \in BOOLEAN
    /\ owner \in Ctx \cup {Background, None}
    /\ more \in BOOLEAN
HeardTypeOK == heard \in Outcomes /\ trouble \subseteq {"upload", "slip"}

\* Every variable has a value of its kind, and the channel is closed only by whoever has set
\* mc.closed (cleanup).
TypeOK ==
    CallTypeOK /\ WatchTypeOK /\ LinkTypeOK /\ WireTypeOK /\ CursorTypeOK /\ HeardTypeOK

\* The contexts of the operation under way and of the rows that are open.
InUse == {ctx} \cup IF rows = "none" THEN {} ELSE {owner}

\* Only a context that is in use closes the connection: one whose operation has returned
\* does not, however late the watcher notices that it is done (finish, startWatcher).
OnlyOwnContextCloses == [][closed = "no" /\ closed' = "watcher" => wctx \in InUse]_vars

\* mc.canceled is set at most once: an atomic.Value does not take a second error of another
\* type, it panics (finish, watchCancel, atomicError.Set).
CancelledOnce == [][canceled # None => canceled' = canceled]_vars

\* What a cancellation broke is answered with the context's error, never with the error of a
\* broken connection: mc.canceled is set before the socket is shut (cancel, readPacket).
CancelIsReported == answer = "invalid" => closed = "caller"

\* Between operations nobody is watched, on any path an operation can end: otherwise the next
\* one would close the connection (watchCancel, finish).
UnwatchedWhenFree ==
    pc = "free" /\ rows = "none" /\ closed = "no" => ~watching /\ inbox = None /\ wpc = "idle"

\* No cancellation is lost: while an operation is under way on an open connection, its
\* context is in the channel, with the watcher at mc.watcher to take it, or with the watcher,
\* which is at most on its way to the close (watchCancel, startWatcher).  A close that was
\* begun is carried on to the channel and the socket (cleanup).
CancelIsHeard ==
    /\ closed = "no" /\ ctx \in Ctx /\ op \in Connecting \cup WithContext
       /\ pc \in Calling \ {"check", "stmtclose"}
          => \/ inbox = ctx /\ wpc = "idle"
             \/ inbox = None /\ wctx = ctx /\ wpc \in {"watching", "cancel", "swap"}
    /\ closed # "no" => closech \/ wpc = "closech"
    /\ closech => socket = "shut" \/ wpc = "shut"

\* Between operations no packet is left unread and none is taken for the answer to another
\* command, unless the answer to a failed upload was not looked at, a binary row was asked
\* for after the last, or the caller overlaps operations (discardResults, Rows.Close).  A
\* connection that the watcher is closing is excepted: Connect tries its second charset on it.
StreamIsClean ==
    closed = "no" /\ rows = "none" /\ trouble = {} =>
        /\ pc = "free" => reply = "none"
        /\ pc # "confused"

\* database/sql sends a command again when it is answered with driver.ErrBadConn: then the
\* server has not executed it, except when an upload failed or a read-only server refused a
\* later statement of it (markBadConn, handleErrorPacket).
Retried == op \in WithContext /\ answer = "bad"
BadConnIsUnheard == Retried => heard \notin {"whole", "executed"}

\* An operation whose context is done returns, whatever the server does (startWatcher).
CancelEnds ==
    \A c \in Ctx :
        pc \in Calling /\ ctx = c /\ c \in cancelled ~> ~(pc \in Calling /\ ctx = c)

\* A connection that was closed lets go of its socket and its watcher (cleanup, startWatcher).
ClosedIsReleased == closed # "no" ~> wpc = "gone" /\ socket = "shut"
=============================================================================

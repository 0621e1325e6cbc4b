-------------------------------- MODULE DBConn --------------------------------
(***************************************************************************)
(* A mysql connection as one client uses it: CDBConn with its transactions   *)
(* and CPrepareStatement, of DBPool.cpp, over a link the server may drop at  *)
(* any time.  Every call first pings, which opens a new session when the old *)
(* one is gone, and ignores whether it did.                                 *)
(*                                                                          *)
(* The client library and the server are external.  A statement that changes *)
(* a row is "update r"; it affects the row once.  The table holds the rows   *)
(* whose change is committed.                                               *)
(***************************************************************************)
EXTENDS Integers, FiniteSets

CONSTANTS Rows,
          MaxLosses   \* bound: how often the link is lost

None == "none"

VARIABLES m_mysql,  \* the handle: "NULL", "init" or "connected" once
          link,     \* the session is up
          intrans,  \* a transaction is open in the session
          open,     \* the rows it changed
          table,    \* the rows whose change is committed
          m_stmt,   \* the prepared statement: None, "init", or the row it changes
          call,     \* the call under way
          losses,
          told,     \* the last call and what it returned
          begun,    \* StartTransaction was acknowledged, Commit or Rollback not yet
          claimed,  \* the rows whose change was acknowledged in that transaction
          ended,    \* claimed, as it was when its Commit or Rollback was acknowledged
          lost,     \* the session was lost since StartTransaction was acknowledged
          kept      \* the rows whose change was acknowledged outside a transaction

server == <<link, intrans, open, table>>
ghosts == <<told, begun, claimed, ended, lost, kept>>
vars == <<m_mysql, server, m_stmt, call, losses, ghosts>>

TypeOK == /\ m_mysql \in {"NULL", "init", "connected"} /\ link \in BOOLEAN
          /\ intrans \in BOOLEAN /\ open \subseteq Rows
          /\ table \subseteq Rows /\ m_stmt \in Rows \cup {None, "init"}
          /\ begun \in BOOLEAN /\ claimed \subseteq Rows
          /\ ended \subseteq Rows /\ lost \in BOOLEAN /\ kept \subseteq Rows
          /\ losses \in 0 .. MaxLosses /\ told[2] \in BOOLEAN
          /\ ~link => ~intrans
          /\ ~intrans => open = {}

NoCall == [name |-> None, row |-> None, care |-> FALSE, pinged |-> FALSE]

Init == /\ m_mysql = "NULL" /\ link = FALSE /\ intrans = FALSE /\ open = {} /\ table = {}
        /\ m_stmt = None /\ call = NoCall /\ losses = 0
        /\ told = <<None, TRUE>> /\ begun = FALSE /\ claimed = {} /\ ended = {} /\ lost = FALSE
        /\ kept = {}

\* CDBConn::Init.  The destructor closes the handle of one that fails.
InitConn == /\ m_mysql # "connected"
            /\ \E ok \in BOOLEAN :
                 /\ m_mysql' = IF ok THEN "connected" ELSE "init"
                 /\ link' = ok
                 /\ told' = <<"Init", ok>>
            /\ UNCHANGED <<intrans, open, table, m_stmt, call, losses, begun, claimed, ended,
                           lost, kept>>

-----------------------------------------------------------------------------
(* The session                                                              *)

\* The server drops the session: its transaction is rolled back.
LinkLost == /\ losses < MaxLosses
            /\ link
            /\ losses' = losses + 1
            /\ link' = FALSE /\ intrans' = FALSE /\ open' = {}
            /\ lost' = TRUE
            /\ UNCHANGED <<m_mysql, table, m_stmt, call, told, begun, claimed, ended, kept>>

\* What a new session has lost: the statements prepared in the old one.
Detached == IF m_stmt \in Rows THEN "init" ELSE m_stmt

\* mysql_ping at the start of every call but the execution of a statement: the
\* library may or may not reach the server again.
Ping == /\ call # NoCall /\ ~call.pinged
        /\ call' = [call EXCEPT !.pinged = TRUE]
        /\ \/ link /\ UNCHANGED <<link, m_stmt>>
           \/ ~link /\ UNCHANGED <<link, m_stmt>>
           \/ ~link /\ link' = TRUE /\ m_stmt' = Detached
        /\ UNCHANGED <<m_mysql, intrans, open, table, losses, ghosts>>

Ends == {"Commit", "Rollback"}
Updates == {"ExecuteUpdate", "ExecuteStatement"}

\* What a statement does in the session.
Affects(row) == row \notin table \cup open

Executed(name, row) ==
  \/ name = "StartTransaction" /\ intrans' = TRUE /\ open' = {} /\ table' = table \cup open
  \/ name = "Commit" /\ intrans' = FALSE /\ open' = {} /\ table' = table \cup open
  \/ name = "Rollback" /\ intrans' = FALSE /\ open' = {} /\ UNCHANGED table
  \/ name \in Updates /\ intrans /\ open' = open \cup {row} /\ UNCHANGED <<intrans, table>>
  \/ name \in Updates /\ ~intrans /\ table' = table \cup {row} /\ UNCHANGED <<intrans, open>>
  \/ name = "Prepare" /\ UNCHANGED <<intrans, open, table>>

-----------------------------------------------------------------------------
(* The calls                                                                *)

Call(name, row, care) ==
  /\ m_mysql = "connected" /\ call = NoCall
  /\ call' = [name |-> name, row |-> row, care |-> care,
              pinged |-> (name = "ExecuteStatement")]
  /\ told' = <<name, FALSE>>
  /\ UNCHANGED <<m_mysql, server, m_stmt, losses, begun, claimed, ended, lost, kept>>

StartTransaction == ~begun /\ Call("StartTransaction", None, FALSE)
Commit == begun /\ Call("Commit", None, FALSE)
Rollback == begun /\ Call("Rollback", None, FALSE)
\* Each row is changed by one update that is acknowledged.
ExecuteUpdate(row, care) == /\ row \notin kept \cup table \cup claimed
                            /\ Call("ExecuteUpdate", row, care)
\* CPrepareStatement::Init of a new object, and its ExecuteUpdate.
Prepare(row) == m_stmt = None /\ Call("Prepare", row, FALSE)
ExecuteStatement == m_stmt # None /\ Call("ExecuteStatement", m_stmt, TRUE)
\* ~CPrepareStatement
CloseStatement == /\ call = NoCall /\ m_stmt # None
                  /\ m_stmt' = None
                  /\ UNCHANGED <<m_mysql, server, call, losses, ghosts>>

\* What the client takes from a call that returned ok.
Believe(name, row, ok) ==
  /\ told' = <<name, ok>>
  /\ begun' = IF ok /\ name \in {"StartTransaction"} \cup Ends THEN name \notin Ends ELSE begun
  /\ claimed' = IF ok /\ name \in Ends THEN {}
                ELSE IF ok /\ begun /\ name \in Updates THEN claimed \cup {row} ELSE claimed
  /\ ended' = IF ok /\ name \in Ends THEN claimed ELSE ended
  /\ kept' = IF ok /\ ~begun /\ name \in Updates THEN kept \cup {row} ELSE kept

\* Slip: an update that failed is taken for one that changed no row.
AnsweredOnFailure == ~call.care

FailureAnswer == FALSE

Acknowledged(affects) == affects \/ ~call.care

\* The query fails: the session is gone and not opened again, the server refuses
\* the statement, or the answer is lost with the session after it was executed.
QueryFails ==
  /\ call # NoCall /\ call.pinged
  /\ call' = NoCall
  /\ Believe(call.name, call.row, call.name = "ExecuteUpdate" /\ FailureAnswer)
  /\ m_stmt' = IF call.name = "Prepare" THEN "init" ELSE m_stmt
  /\ \/ UNCHANGED <<server, losses, lost>>
     \/ /\ link /\ losses < MaxLosses
        /\ losses' = losses + 1
        /\ link' = FALSE /\ intrans' = FALSE /\ open' = {} /\ lost' = TRUE
        /\ \/ UNCHANGED table
           \/ /\ call.name = "Commit" /\ table' = table \cup open
           \/ /\ call.name \in Updates /\ ~intrans
              /\ call.row \in Rows /\ table' = table \cup {call.row}
  /\ UNCHANGED m_mysql

\* The query succeeds, in the session or in a new one the library opens for it.
\* A statement prepared in a session that is gone does not.
QuerySucceeds ==
  /\ call # NoCall /\ call.pinged
  /\ call.name = "ExecuteStatement" => link /\ m_stmt \in Rows
  /\ call' = NoCall
  /\ link' = TRUE
  /\ m_stmt' = IF call.name = "Prepare" THEN call.row ELSE IF link THEN m_stmt ELSE Detached
  /\ Executed(call.name, call.row)
  /\ Believe(call.name, call.row,
             call.name \in Updates => Acknowledged(Affects(call.row)))
  /\ lost' = (call.name # "StartTransaction" /\ lost)
  /\ UNCHANGED <<m_mysql, losses>>

Next == \/ InitConn \/ LinkLost \/ Ping \/ QueryFails \/ QuerySucceeds
        \/ StartTransaction \/ Commit \/ Rollback
        \/ \E r \in Rows : Prepare(r) \/ \E care \in BOOLEAN : ExecuteUpdate(r, care)
        \/ ExecuteStatement \/ CloseStatement

Spec == Init /\ [][Next]_vars

-----------------------------------------------------------------------------
(* Properties                                                               *)

\* While the session lasts a transaction is whole: the changes acknowledged in it
\* are all in the table once Commit is acknowledged, and none once Rollback is.
\* A session that is lost and silently replaced takes the first of the changes
\* with it and commits the others one by one, and Commit is acknowledged.
TransactionsWhole ==
  ~lost => /\ told = <<"Commit", TRUE>> => ended \subseteq table
           /\ told = <<"Rollback", TRUE>> => ended \cap table = {}
           /\ begun => intrans /\ claimed \subseteq open \cup table

\* A change acknowledged outside a transaction is in the table, whatever link was
\* lost, session replaced or transaction left open before it.
UpdatesKept == kept \subseteq table
================================================================================

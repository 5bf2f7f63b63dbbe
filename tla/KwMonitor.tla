------------------------------ MODULE KwMonitor ------------------------------
(***************************************************************************)
(* The tray application: the poll thread hands an alert to the UI thread   *)
(* by posting to the message window (OnNewAlert, main.c), whose procedure  *)
(* posts it on to the log dialog (log_window.c).  Both windows belong to   *)
(* the UI thread and share its queue.                                      *)
(*                                                                         *)
(* An alert is its number, its level and whether its HMAC was valid.       *)
(***************************************************************************)
EXTENDS Integers, Sequences

CONSTANTS
    Level,          \* alert levels
    STORED_MAX,     \* the alerts kept for saving
    MaxAlerts,      \* bound: alerts
    MaxClears       \* bound: clears

ASSUME StoredAssumption == STORED_MAX \in Nat \ {0} /\ Level \subseteq Nat

VARIABLES
    posted,         \* the queue of the UI thread: [to, msg, alert]
    g_TotalAlerts,
    g_AlertActive,  \* the tray icon is red
    eventLog,       \* what went to the Application event log
    list,           \* the rows of the list view
    s_Stored,
    s_StoredCount,
    saved,          \* the last file written by SaveLog
    running,        \* the message pump runs
    sent,           \* alerts so far
    clears,         \* clears so far
    \* history, never read by an action
    lost,           \* a copy found no memory
    button          \* the dialog's own Clear button was used

moVars == <<posted, g_TotalAlerts, g_AlertActive, eventLog, list, s_Stored, s_StoredCount, saved,
            running, sent, clears, lost, button>>

NoAlert == [id |-> 0, level |-> 0, valid |-> TRUE]

MoInit ==
    /\ posted = <<>> /\ g_TotalAlerts = 0 /\ g_AlertActive = FALSE /\ eventLog = <<>>
    /\ list = <<>> /\ s_Stored = [i \in 0..STORED_MAX - 1 |-> NoAlert] /\ s_StoredCount = 0
    /\ saved = <<>> /\ running = TRUE /\ sent = 0 /\ clears = 0 /\ lost = FALSE /\ button = FALSE

Post(to, msg, alert) == Append(posted, [to |-> to, msg |-> msg, alert |-> alert])

(* The callback of the poll thread: a copy, if there is memory, and a message. *)
OnNewAlert ==
    /\ running /\ sent < MaxAlerts
    /\ sent' = sent + 1
    /\ \/ /\ \E l \in Level, v \in BOOLEAN :
                posted' = Post("main", "alert", [id |-> sent + 1, level |-> l, valid |-> v])
          /\ UNCHANGED lost
       \/ lost' = TRUE /\ UNCHANGED posted
    /\ UNCHANGED <<g_TotalAlerts, g_AlertActive, eventLog, list, s_Stored, s_StoredCount, saved,
                   running, clears, button>>

Got(to, msg) == running /\ posted # <<>> /\ Head(posted).to = to /\ Head(posted).msg = msg

(* A notification that failed authentication is recorded as such, without its content. *)
EventLogEntry(a) == IF a.valid THEN [id |-> a.id, level |-> a.level] ELSE [id |-> a.id, level |-> -1]

(* MsgWndProc, WM_NEW_ALERT: count, icon, event log, and on to the dialog (LogWindow_AddAlert). *)
MainNewAlert ==
    /\ Got("main", "alert")
    /\ LET a == Head(posted).alert IN
        /\ g_TotalAlerts' = g_TotalAlerts + 1
        /\ g_AlertActive' = (g_AlertActive \/ a.level >= 1)
        /\ eventLog' = Append(eventLog, EventLogEntry(a))
        /\ \/ /\ posted' = Append(Tail(posted), [to |-> "log", msg |-> "alert", alert |-> a])
              /\ UNCHANGED lost
           \/ posted' = Tail(posted) /\ lost' = TRUE
    /\ UNCHANGED <<list, s_Stored, s_StoredCount, saved, running, sent, clears, button>>

(* ShowContextMenu: the menu of the tray icon posts its command to the message window; *)
(* "Clear Log" is grayed out when there is nothing to clear.                            *)
ChooseClear ==
    /\ running /\ g_TotalAlerts # 0 /\ clears < MaxClears
    /\ clears' = clears + 1
    /\ posted' = Post("main", "clear", NoAlert)
    /\ UNCHANGED <<g_TotalAlerts, g_AlertActive, eventLog, list, s_Stored, s_StoredCount, saved,
                   running, sent, lost, button>>

(* MsgWndProc, ID_TRAY_CLEAR_LOG: LogWindow_Clear posts to the dialog; the count and the icon go at once. *)
MainClear ==
    /\ Got("main", "clear")
    /\ posted' = Append(Tail(posted), [to |-> "log", msg |-> "clear", alert |-> NoAlert])
    /\ g_TotalAlerts' = 0 /\ g_AlertActive' = FALSE
    /\ UNCHANGED <<eventLog, list, s_Stored, s_StoredCount, saved, running, sent, clears, lost,
                   button>>

(* LogDlgProc, WM_NEW_ALERT: a row, and a place in the ring of stored records. *)
LogNewAlert ==
    /\ Got("log", "alert")
    /\ posted' = Tail(posted)
    /\ list' = Append(list, Head(posted).alert)
    /\ s_Stored' = [s_Stored EXCEPT ![s_StoredCount % STORED_MAX] = Head(posted).alert]
    /\ s_StoredCount' = s_StoredCount + 1
    /\ UNCHANGED <<g_TotalAlerts, g_AlertActive, eventLog, saved, running, sent, clears, lost,
                   button>>

(* Mutant: the rows go, the records for the file stay. *)
ClearLog_RowsOnly ==
    /\ list' = <<>>
    /\ UNCHANGED <<s_StoredCount, eventLog, s_Stored, saved, running, sent, lost>>

(* LogDlgProc, IDC_CLEAR_BTN, which the menu posts and the button sends. *)
ClearLog ==
    /\ list' = <<>>
    /\ s_StoredCount' = 0
    /\ UNCHANGED <<eventLog, s_Stored, saved, running, sent, lost>>

LogClear ==
    /\ Got("log", "clear")
    /\ posted' = Tail(posted)
    /\ ClearLog
    /\ UNCHANGED <<g_TotalAlerts, g_AlertActive, clears, button>>

PressClear ==
    /\ running /\ clears < MaxClears
    /\ clears' = clears + 1
    /\ button' = TRUE
    /\ ClearLog
    /\ UNCHANGED <<posted, g_TotalAlerts, g_AlertActive>>

(* The lines of a saved file: one per record since the last clear, wrapped or not. *)
SaveLines == [i \in 1..s_StoredCount |-> s_Stored[(i - 1) % STORED_MAX]]

SaveLog ==
    /\ running
    /\ saved' = SaveLines
    /\ UNCHANGED <<posted, g_TotalAlerts, g_AlertActive, eventLog, list, s_Stored, s_StoredCount,
                   running, sent, clears, lost, button>>

(* ID_TRAY_EXIT: the window is destroyed and the pump ends; what is still posted is never handled. *)
Exit ==
    /\ running
    /\ running' = FALSE
    /\ UNCHANGED <<posted, g_TotalAlerts, g_AlertActive, eventLog, list, s_Stored, s_StoredCount,
                   saved, sent, clears, lost, button>>

MoNext ==
    \/ OnNewAlert \/ MainNewAlert \/ ChooseClear \/ MainClear
    \/ LogNewAlert \/ LogClear \/ PressClear \/ SaveLog \/ Exit

MoSpec == MoInit /\ [][MoNext]_moVars

-----------------------------------------------------------------------------
(* When nothing is waiting in the queue and no copy was lost, the places    *)
(* that show alerts agree, whatever the order of alerts and clears: a file  *)
(* saved now holds the rows of the list while the ring of stored records    *)
(* has not gone round (log_window.c:128), the event log has every alert     *)
(* that was raised, and unless the dialog's own button cleared the rows the *)
(* tip counts them and the icon is red exactly when one is a warning or     *)
(* worse (main.c:279-291 and :316-320).                                     *)
WindowsAgree ==
    posted = <<>> /\ ~lost =>
        /\ s_StoredCount = Len(list)
        /\ s_StoredCount <= STORED_MAX => SaveLines = list
        /\ running => Len(eventLog) = sent
        /\ ~button => /\ g_TotalAlerts = Len(list)
                      /\ g_AlertActive <=> \E i \in 1..Len(list) : list[i].level >= 1
=============================================================================

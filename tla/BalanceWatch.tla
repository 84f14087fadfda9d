------------------------------ MODULE BalanceWatch ------------------------------
(***************************************************************************)
(* The balance of a provider as the shop knows it, and the chat that is     *)
(* warned about it: RunAlertCheck of                                        *)
(* internal/service/telegram_alert_service.go, the writers of               *)
(* providers.balance (balance sync, refresh, edit by an admin) and the      *)
(* settings in system_settings, written and read one key at a time.  One    *)
(* provider with a minimum balance.                                         *)
(***************************************************************************)
EXTENDS Sequences, Naturals

CONSTANTS
    Writers,   \* goroutines that write the provider's row
    MaxEvents   \* bound: changes of the world, edits, saves, failures and restarts

ASSUME WatchAssumption == MaxEvents \in Nat

VARIABLES
    purse,      \* the balance the provider holds, against the minimum
    backlog,    \* an order waits too long at its provider
    row,        \* providers.balance
    settings,   \* the keys that hold a usable value
    saving,     \* SaveSettings: the keys still to write, the values wanted
    check,      \* RunAlertCheck
    flags,      \* isLowBalance and lastAlerts
    writer,     \* what each writer of the row carries
    chat,       \* the last word on the balance, whether the backlog was told
    lost,       \* an all-clear was never delivered
    events

watchVars == <<purse, backlog, row, settings, saving, check, flags, writer, chat, lost, events>>

Levels == {"low", "ok"}
\* telegram_enabled, with the token and the chat id, and telegram_min_balance.
SettingKeys == {"enabled", "minimum"}
KeyOrder == <<"enabled", "minimum">>
NoCheck == [at |-> "idle", todo |-> <<>>, seen |-> {}, level |-> "ok"]
NoFlags == [low |-> FALSE, cooling |-> {}]
NoSave == [todo |-> <<>>, wanted |-> {}]

WatchInit ==
    /\ purse \in Levels
    /\ backlog = FALSE
    /\ row = "ok"
    /\ settings \in {{}, SettingKeys}
    /\ saving = NoSave
    /\ check = NoCheck
    /\ flags = NoFlags
    /\ writer = [w \in Writers |-> "idle"]
    /\ chat = [heard |-> "nothing", told |-> FALSE]
    /\ lost = FALSE
    /\ events = 0

Happens == events < MaxEvents /\ events' = events + 1
To(place) == check' = [check EXCEPT !.at = place]
Quits == check' = NoCheck

-------------------------------------------------------------------------------
(* RunAlertCheck.                                                          *)

OpenCheck ==
    /\ check.at = "idle"
    /\ check' = [NoCheck EXCEPT !.at = "settings", !.todo = KeyOrder]
    /\ UNCHANGED <<purse, backlog, row, settings, saving, flags, writer, chat, lost, events>>

\* Keys are read one by one: a check sees a save half done.  Alerts that are
\* off end the check, and without a minimum only the backlog is looked at.
ReadKey ==
    /\ check.at = "settings"
    /\ LET seen == check.seen \cup ({Head(check.todo)} \cap settings)
           rest == Tail(check.todo)
       IN \/ /\ rest # <<>>
             /\ check' = [check EXCEPT !.todo = rest, !.seen = seen]
          \/ /\ rest = <<>> /\ "enabled" \notin seen
             /\ Quits
          \/ /\ rest = <<>> /\ "enabled" \in seen
             /\ check' = [NoCheck EXCEPT !.at = IF "minimum" \in seen THEN "list" ELSE "stuck"]
    /\ UNCHANGED <<purse, backlog, row, settings, saving, flags, writer, chat, lost, events>>

ListProviders ==
    /\ check.at = "list"
    /\ \/ check' = [check EXCEPT !.at = "ask", !.level = row] /\ UNCHANGED events
       \/ To("stuck") /\ Happens
    /\ UNCHANGED <<purse, backlog, row, settings, saving, flags, writer, chat, lost>>

\* A provider that does not answer is judged by the row.
BalanceAnswers ==
    /\ check.at = "ask"
    /\ check' = [check EXCEPT !.at = "snapshot", !.level = purse]
    /\ UNCHANGED <<purse, backlog, row, settings, saving, flags, writer, chat, lost, events>>

BalanceFails ==
    /\ check.at = "ask" /\ Happens
    /\ To("judge")
    /\ UNCHANGED <<purse, backlog, row, settings, saving, flags, writer, chat, lost>>

\* The error of UpdateBalanceSnapshot is dropped.
Snapshot ==
    /\ check.at = "snapshot"
    /\ \/ row' = check.level /\ UNCHANGED events
       \/ Happens /\ UNCHANGED row
    /\ To("judge")
    /\ UNCHANGED <<purse, backlog, settings, saving, flags, writer, chat, lost>>

\* The flag is read before it is set; the variant reads it after.
WasCleared == FALSE
wasLow == flags.low
Judge ==
    /\ check.at = "judge"
    /\ flags' = [flags EXCEPT !.low = check.level = "low"]
    /\ To(IF IF check.level = "ok" THEN wasLow ELSE "balance" \notin flags.cooling
          THEN "send" ELSE "stuck")
    /\ UNCHANGED <<purse, backlog, row, settings, saving, writer, chat, lost, events>>

SendMessage ==
    /\ check.at = "send"
    /\ chat' = [chat EXCEPT !.heard = check.level]
    /\ flags' = [flags EXCEPT !.cooling = IF check.level = "low" THEN @ \cup {"balance"} ELSE @]
    /\ To("stuck")
    /\ UNCHANGED <<purse, backlog, row, settings, saving, writer, lost, events>>

\* Telegram refuses or does not answer; an all-clear is not tried again.
MessageFails ==
    /\ check.at = "send" /\ Happens
    /\ lost' = (lost \/ check.level = "ok")
    /\ To("stuck")
    /\ UNCHANGED <<purse, backlog, row, settings, saving, flags, writer, chat>>

\* CountProviderPendingOlderThan, FindProviderPendingOlderThan, the message.
ReportStuck ==
    /\ check.at = "stuck"
    /\ IF "stuck" \notin flags.cooling /\ backlog
       THEN /\ chat' = [chat EXCEPT !.told = TRUE]
            /\ flags' = [flags EXCEPT !.cooling = @ \cup {"stuck"}]
       ELSE UNCHANGED <<chat, flags>>
    /\ Quits
    /\ UNCHANGED <<purse, backlog, row, settings, saving, writer, lost, events>>

ReportFails ==
    /\ check.at = "stuck" /\ Happens
    /\ Quits
    /\ UNCHANGED <<purse, backlog, row, settings, saving, flags, writer, chat, lost>>

\* Four minutes after a message; checks start every five, and may be slow.
CoolsDown ==
    /\ flags.cooling # {}
    /\ flags' = [flags EXCEPT !.cooling = {}]
    /\ UNCHANGED <<purse, backlog, row, settings, saving, check, writer, chat, lost, events>>

-------------------------------------------------------------------------------
(* Writers of the row.                                                     *)

\* SyncProviderBalance, RefreshAllProviderBalances and GetProviderBalance
\* carry the provider's answer, UpdateProvider the row it read.
FetchBalance(w) ==
    /\ writer[w] = "idle"
    /\ writer' = [writer EXCEPT ![w] = purse]
    /\ UNCHANGED <<purse, backlog, row, settings, saving, check, flags, chat, lost, events>>

ReadProvider(w) ==
    /\ writer[w] = "idle" /\ Happens
    /\ writer' = [writer EXCEPT ![w] = row]
    /\ UNCHANGED <<purse, backlog, row, settings, saving, check, flags, chat, lost>>

WriteBalance(w) ==
    /\ writer[w] # "idle"
    /\ \/ row' = writer[w] /\ UNCHANGED events
       \/ Happens /\ UNCHANGED row
    /\ writer' = [writer EXCEPT ![w] = "idle"]
    /\ UNCHANGED <<purse, backlog, settings, saving, check, flags, chat, lost>>

-------------------------------------------------------------------------------
(* SaveSettings.                                                           *)

SaveSettings ==
    /\ saving = NoSave /\ Happens
    /\ \E wanted \in SUBSET SettingKeys :
           saving' = [todo |-> KeyOrder, wanted |-> wanted]
    /\ UNCHANGED <<purse, backlog, row, settings, check, flags, writer, chat, lost>>

\* The first key that fails ends the save; the keys written before it stay.
WriteKey ==
    /\ saving.todo # <<>>
    /\ \/ LET key == Head(saving.todo) IN
          /\ settings' = (settings \ {key}) \cup ({key} \cap saving.wanted)
          /\ saving' = IF Tail(saving.todo) = <<>> THEN NoSave
                       ELSE [saving EXCEPT !.todo = Tail(@)]
          /\ UNCHANGED events
       \/ saving' = NoSave /\ Happens /\ UNCHANGED settings
    /\ UNCHANGED <<purse, backlog, row, check, flags, writer, chat, lost>>

-------------------------------------------------------------------------------
\* The owner fills the purse, orders drain it; orders get stuck or come through.
WorldMoves ==
    /\ Happens
    /\ \/ purse' \in Levels \ {purse} /\ UNCHANGED <<backlog, chat>>
       \/ backlog' = ~backlog /\ chat' = [chat EXCEPT !.told = FALSE] /\ UNCHANGED purse
    /\ UNCHANGED <<row, settings, saving, check, flags, writer, lost>>

RestartWatch ==
    /\ Happens
    /\ lost' = (lost \/ flags.low \/ (check.at = "send" /\ check.level = "ok"))
    /\ flags' = NoFlags
    /\ check' = NoCheck
    /\ saving' = NoSave
    /\ writer' = [w \in Writers |-> "idle"]
    /\ UNCHANGED <<purse, backlog, row, settings, chat>>

-------------------------------------------------------------------------------
AlertCheck ==
    \/ OpenCheck \/ ReadKey \/ ListProviders \/ BalanceAnswers \/ BalanceFails \/ Snapshot
    \/ Judge \/ SendMessage \/ MessageFails \/ ReportStuck \/ ReportFails

WatchNext ==
    \/ AlertCheck \/ CoolsDown
    \/ \E w \in Writers : FetchBalance(w) \/ ReadProvider(w) \/ WriteBalance(w)
    \/ SaveSettings \/ WriteKey
    \/ WorldMoves \/ RestartWatch

WatchTypeOK ==
    /\ purse \in Levels /\ row \in Levels /\ {backlog, lost} \subseteq BOOLEAN
    /\ settings \subseteq SettingKeys
    /\ saving \in [todo : Seq(SettingKeys), wanted : SUBSET SettingKeys]
    /\ check \in [at : {"idle", "settings", "list", "ask", "snapshot", "judge", "send",
                        "stuck"},
                  todo : Seq(SettingKeys), seen : SUBSET SettingKeys, level : Levels]
    /\ flags \in [low : BOOLEAN, cooling : SUBSET {"balance", "stuck"}]
    /\ writer \in [Writers -> Levels \cup {"idle"}]
    /\ chat \in [heard : Levels \cup {"nothing"}, told : BOOLEAN]
    /\ events \in 0 .. MaxEvents

\* With alerts configured the chat ends up with the truth: a low balance is the
\* last thing it heard, whatever the row said meanwhile; a balance that is fine
\* is not left announced as low unless the all-clear itself was lost; and a
\* backlog is told.
ChatLearns ==
    <>[](settings = SettingKeys =>
            /\ purse = "low" => chat.heard = "low"
            /\ purse = "ok" /\ chat.heard = "low" => lost
            /\ backlog => chat.told)
===============================================================================

--------------------------- MODULE ChannelHistory ---------------------------
(***************************************************************************)
(* The conversation a sender has with a channel: the turns kept in memory  *)
(* and the session file they are persisted to, what process_channel_message*)
(* appends, rolls back, compacts and sends to the model for each outcome,  *)
(* /new, and the hydration of memory from the files at start-up.  Workers  *)
(* of different messages take the histories mutex one call at a time; the  *)
(* session file is appended to outside of it.                              *)
(***************************************************************************)
EXTENDS Integers, FiniteSets, SequencesExt

CONSTANTS
  Keys,          \* conversation_history_key values
  Sanitize,      \* session_path: a key -> the key its file name reads as
  Settings,      \* configurations and their bounds: see setting
  CompactKeep,   \* CHANNEL_HISTORY_COMPACT_KEEP_MESSAGES
  HydrateMax,    \* MAX_CHANNEL_HISTORY
  MaxMessages    \* bound: messages, in any setting

ASSUME HistoryConstants ==
  /\ Sanitize \in [Keys -> Keys] /\ \A k \in Keys : Sanitize[Sanitize[k]] = Sanitize[k]
  /\ Settings \subseteq [overlap : BOOLEAN, nativeCalls : BOOLEAN, storageFails : BOOLEAN,
                          maxHistory : Nat \ {0}, keepTools : Nat,
                          messages : 0 .. MaxMessages, restarts : Nat]
  /\ {CompactKeep, HydrateMax} \subseteq Nat \ {0} /\ MaxMessages \in Nat

VARIABLES
  setting,   \* overlap: may several messages of a conversation be processed at once?
             \* nativeCalls: are tool calls stored as the native JSON object?
             \* storageFails: may an append to a session file fail?
             \* maxHistory, keepTools: agent.max_history_messages, keep_tool_context_turns
             \* messages, restarts: bounds on messages and on restarts of the daemon
  mem,       \* conversation_histories
  disk,      \* the session files, by the key their names read as
  pending,   \* pending_new_sessions
  key,       \* conversation of each message, in order of arrival
  pc,        \* where the worker of a message is
  out,       \* turns it still appends
  view,      \* the conversation it sent to the model
  loaded,    \* what remove_last has read of the file
  outcome,   \* how processing ended
  restarts

vars == <<setting, mem, disk, pending, key, pc, out, view, loaded, outcome, restarts>>

Messages == 1 .. MaxMessages
KeepTools == setting.keepTools
Arrived == 1 .. Len(key)
Closure == 0                                  \* author of the turn hydration adds

Turn(role, m) == [role |-> role, parts |-> <<<<role, m>>>>]
User(m) == Turn("user", m)
Reply(m) == Turn("assistant", m)

Init ==
  /\ setting \in Settings
  /\ mem = [k \in Keys |-> <<>>] /\ disk = [k \in Keys |-> <<>>]
  /\ pending = {} /\ key = <<>>
  /\ pc = [m \in Messages |-> "none"] /\ outcome = [m \in Messages |-> "none"]
  /\ out = [m \in Messages |-> <<>>] /\ view = [m \in Messages |-> <<>>]
  /\ loaded = [m \in Messages |-> <<>>] /\ restarts = 0

Goto(m, from, to) == pc[m] = from /\ pc' = [pc EXCEPT ![m] = to]

-----------------------------------------------------------------------------
(* Conversations as sequences of turns.                                    *)

\* Mutant: a turn out of turn is dropped.
Merged_Dropped(acc, t) ==
  IF t.role = "tool" \/ acc.user = (t.role = "user")
    THEN [turns |-> Append(acc.turns, t), user |-> t.role # "user" /\ t.role # "tool"]
    ELSE acc

\* normalize_cached_channel_turns: users and assistants alternate, a turn out of
\* turn is merged into the one before it, and dropped when there is none.
Merged(acc, t) ==
  IF t.role = "tool" \/ (acc.user /\ t.role = "user")
    THEN [turns |-> Append(acc.turns, t), user |-> FALSE]
  ELSE IF ~acc.user /\ t.role # "user"
    THEN [turns |-> Append(acc.turns, t), user |-> TRUE]
  ELSE IF acc.turns = <<>> THEN acc
  ELSE [acc EXCEPT !.turns[Len(acc.turns)].parts = @ \o t.parts]

Normalize(turns) == FoldLeft(Merged, [turns |-> <<>>, user |-> TRUE], turns).turns

\* Mutant: the oldest turns are kept.
Latest_First(n, turns) == IF Len(turns) > n THEN SubSeq(turns, 1, n) ELSE turns

Latest(n, turns) == IF Len(turns) > n THEN SubSeq(turns, Len(turns) - n + 1, Len(turns)) ELSE turns

\* Mutant: the limit is not applied.
Extended_Untrimmed(turns, t) == Append(turns, t)

Extended(turns, t) == Latest(setting.maxHistory, Append(turns, t))

\* is_tool_call_content: the tags of a call written as text are found wherever they
\* are, the JSON of a native call starts with {"content" and is not recognised.
LooksLikeCall(t) ==
  t.role # "user" /\ ~setting.nativeCalls /\ \E i \in DOMAIN t.parts : t.parts[i][1] = "call"

\* The elements of s that are in S, in their order.
Only(s, S) == FoldLeft(LAMBDA kept, x : IF x \in S THEN Append(kept, x) ELSE kept, <<>>, s)

\* strip_old_tool_context: nothing after the protected index is touched; it is
\* the whole length when there are no more than KeepTools user turns.
Protected(turns) ==
  LET users == {i \in DOMAIN turns : turns[i].role = "user"}
      older == {i \in users : Cardinality({j \in users : j > i}) = KeepTools}
  IN  IF older = {} THEN Len(turns) ELSE CHOOSE i \in older : TRUE

Stripped(turns) ==
  LET boundary == Protected(turns)
      texts == {t \in Range(turns) : t.role # "tool" /\ ~LooksLikeCall(t)}
  IN  Only(SubSeq(turns, 1, boundary), texts) \o SubSeq(turns, boundary + 1, Len(turns))

-----------------------------------------------------------------------------
(* A message.                                                              *)

\* With interruption the worker waits for the one before it in its scope.
Arrive(k, first) ==
  /\ Len(key) < setting.messages
  /\ setting.overlap \/ \A m \in Arrived : key[m] = k => pc[m] \in {"done", "lost"}
  /\ key' = Append(key, k)
  /\ pc' = [pc EXCEPT ![Len(key) + 1] = first]
  /\ outcome' = [outcome EXCEPT ![Len(key) + 1] = IF first = "new" THEN "new" ELSE "none"]
  /\ UNCHANGED <<mem, disk, pending, out, view, loaded, restarts>>

\* The histories mutex: held by remove_last's caller until the file is rewritten.
Unlocked == \A m \in Messages : pc[m] # "rewrite"

Fresh(m) == key[m] \in pending

\* Dropped by a hook, cancelled before it started, or without a provider.
Drop(m) ==
  /\ Goto(m, "begin", "done")
  /\ outcome' = [outcome EXCEPT ![m] = "cancelled"]
  /\ UNCHANGED <<mem, disk, pending, key, out, view, loaded, restarts>>

TakePending(m) ==
  /\ pc[m] = "begin" /\ Unlocked
  /\ pending' = pending \ {key[m]}
  /\ pc' = [pc EXCEPT ![m] = IF Fresh(m) THEN "fresh" ELSE "persist"]
  /\ out' = [out EXCEPT ![m] = <<User(m)>>]
  /\ UNCHANGED <<mem, disk, key, view, loaded, outcome, restarts>>

ClearFresh(m) ==
  /\ Unlocked /\ Goto(m, "fresh", "persist")
  /\ mem' = [mem EXCEPT ![key[m]] = <<>>]
  /\ view' = [view EXCEPT ![m] = <<User(m)>>]
  /\ UNCHANGED <<disk, pending, key, out, loaded, outcome, restarts>>

\* append_sender_turn: the file first, then memory; an error is only logged.
Persist(m) ==
  /\ Goto(m, "persist", "remember")
  /\ \/ disk' = [disk EXCEPT ![Sanitize[key[m]]] = Append(@, Head(out[m]))]
     \/ setting.storageFails /\ UNCHANGED disk
  /\ UNCHANGED <<mem, pending, key, out, view, loaded, outcome, restarts>>

\* After the last turn: the conversation is read, old tool turns are stripped, or
\* the message is done.
After(m) ==
  IF outcome[m] = "none" THEN "read"
  ELSE IF outcome[m] = "answered" /\ KeepTools > 0 THEN "strip" ELSE "done"

Remember(m) ==
  /\ pc[m] = "remember" /\ Unlocked
  /\ mem' = [mem EXCEPT ![key[m]] = Extended(@, Head(out[m]))]
  /\ out' = [out EXCEPT ![m] = Tail(@)]
  /\ pc' = [pc EXCEPT ![m] = IF Len(out[m]) > 1 THEN "persist" ELSE After(m)]
  /\ UNCHANGED <<disk, pending, key, view, loaded, outcome, restarts>>

\* A fresh message is sent alone.
Read(m) ==
  /\ Unlocked /\ Goto(m, "read", "model")
  /\ view' = [view EXCEPT ![m] = Normalize(IF @ # <<>> THEN @ ELSE mem[key[m]])]
  /\ UNCHANGED <<mem, disk, pending, key, out, loaded, outcome, restarts>>

Ends(m, how, next, turns) ==
  /\ Goto(m, "model", next)
  /\ outcome' = [outcome EXCEPT ![m] = how]
  /\ out' = [out EXCEPT ![m] = turns]
  /\ UNCHANGED <<mem, disk, pending, key, view, loaded, restarts>>

\* Interrupted, stopped, or its reply suppressed by a hook.
Cancel(m) == Ends(m, "cancelled", "done", <<>>)

\* A reply, after tool calls or not; the marker of a message that needs none.
Answer(m) ==
  \/ Ends(m, "answered", "persist", <<Reply(m)>>)
  \/ KeepTools > 0 /\ Ends(m, "answered", "persist", <<Turn("call", m), Turn("tool", m), Reply(m)>>)
NoReply(m) == Ends(m, "silent", "persist", <<Reply(m)>>)

\* Mutant: the failed turn is left open.
Fail_Open(m) == Ends(m, "failed", "done", <<>>)

\* An error or a timeout closes the user turn with a marker.
Fail(m) == Ends(m, "failed", "persist", <<Reply(m)>>)

Overflow(m) == Ends(m, "overflow", "compact", <<>>)
Reject(m) == Ends(m, "rejected", "rollback", <<>>)

Strip(m) ==
  /\ Unlocked /\ Goto(m, "strip", "done")
  /\ mem' = [mem EXCEPT ![key[m]] = Stripped(@)]
  /\ UNCHANGED <<disk, pending, key, out, view, loaded, outcome, restarts>>

\* compact_sender_history, of memory only.
Compact(m) ==
  /\ Unlocked /\ Goto(m, "compact", "done")
  /\ mem' = [mem EXCEPT ![key[m]] = Normalize(Latest(CompactKeep, @))]
  /\ UNCHANGED <<disk, pending, key, out, view, loaded, outcome, restarts>>

IsOrphan(turns, m) == turns # <<>> /\ Last(turns) = User(m)

\* rollback_orphan_user_turn pops the message's turn when it is the last one and
\* reads the file to drop its last turn too; otherwise the turn is closed.
Rollback(m) ==
  /\ pc[m] = "rollback" /\ Unlocked
  /\ LET turns == mem[key[m]]
         file == disk[Sanitize[key[m]]]
     IN  \/ /\ IsOrphan(turns, m)
            /\ mem' = [mem EXCEPT ![key[m]] = Front(@)]
            /\ loaded' = [loaded EXCEPT ![m] = file]
            /\ pc' = [pc EXCEPT ![m] = IF file = <<>> THEN "done" ELSE "rewrite"]
            /\ UNCHANGED <<out, outcome>>
         \/ /\ ~IsOrphan(turns, m)
            /\ out' = [out EXCEPT ![m] = <<Reply(m)>>]
            /\ outcome' = [outcome EXCEPT ![m] = "failed"]
            /\ pc' = [pc EXCEPT ![m] = "persist"]
            /\ UNCHANGED <<mem, loaded>>
  /\ UNCHANGED <<disk, pending, key, view, restarts>>

Kept(file) == Front(file)

Rewrite(m) ==
  /\ Goto(m, "rewrite", "done")
  /\ disk' = [disk EXCEPT ![Sanitize[key[m]]] = Kept(loaded[m])]
  /\ UNCHANGED <<mem, pending, key, out, view, loaded, outcome, restarts>>

-----------------------------------------------------------------------------
(* /new and restarts.                                                      *)

NewClear(m) ==
  /\ Unlocked /\ Goto(m, "new", "new_file")
  /\ mem' = [mem EXCEPT ![key[m]] = <<>>]
  /\ UNCHANGED <<disk, pending, key, out, view, loaded, outcome, restarts>>

\* Mutant: the session file stays.
Deleted_Not(k) == disk

Deleted(k) == [disk EXCEPT ![Sanitize[k]] = <<>>]

NewDelete(m) ==
  /\ Goto(m, "new_file", "new_mark")
  /\ disk' = Deleted(key[m])
  /\ UNCHANGED <<mem, pending, key, out, view, loaded, outcome, restarts>>

NewMark(m) ==
  /\ Goto(m, "new_mark", "done")
  /\ pending' = pending \cup {key[m]}
  /\ UNCHANGED <<mem, disk, key, out, view, loaded, outcome, restarts>>

Open(turns) == turns # <<>> /\ Last(turns).role = "user"

\* Start-up: the end of each file, an open user turn closed.
Hydrated(turns) ==
  IF Open(turns)
    THEN Append(Latest(HydrateMax, turns), Reply(Closure))
    ELSE Latest(HydrateMax, turns)

Restart ==
  /\ restarts < setting.restarts
  /\ restarts' = restarts + 1
  /\ mem' = [k \in Keys |-> Hydrated(disk[k])]
  /\ \/ disk' = [k \in Keys |-> IF Open(disk[k]) THEN Append(disk[k], Reply(Closure)) ELSE disk[k]]
     \/ setting.storageFails /\ UNCHANGED disk
  /\ pending' = {}
  /\ pc' = [m \in Messages |-> IF pc[m] \in {"none", "done"} THEN pc[m] ELSE "lost"]
  /\ UNCHANGED <<key, out, view, loaded, outcome>>

-----------------------------------------------------------------------------
Act ==
  \/ \E k \in Keys : Arrive(k, "begin") \/ Arrive(k, "new")
  \/ \E m \in Arrived :
       \/ Drop(m) \/ TakePending(m) \/ ClearFresh(m) \/ Persist(m) \/ Remember(m) \/ Read(m)
       \/ Cancel(m) \/ Answer(m) \/ NoReply(m) \/ Fail(m) \/ Overflow(m) \/ Reject(m)
       \/ Strip(m) \/ Compact(m) \/ Rollback(m) \/ Rewrite(m)
       \/ NewClear(m) \/ NewDelete(m) \/ NewMark(m)
  \/ Restart

Next == Act /\ UNCHANGED setting

Spec == Init /\ [][Next]_vars

-----------------------------------------------------------------------------
(* Correctness.                                                            *)

Roles == {"user", "assistant", "call", "tool"}
Turns == [role : Roles, parts : Seq(Roles \X (Messages \cup {Closure}))]
Places == {"none", "begin", "fresh", "persist", "remember", "read", "model", "strip", "compact",
           "rollback", "rewrite", "new", "new_file", "new_mark", "done", "lost"}
Outcomes == {"none", "cancelled", "answered", "silent", "failed", "overflow", "rejected", "new"}

\* Every variable holds a value of its type; memory holds the configured number of
\* turns at most, or what hydration put there.
TypeOK ==
  /\ setting \in Settings
  /\ \A k \in Keys : mem[k] \in Seq(Turns) /\ disk[k] \in Seq(Turns)
  /\ \A k \in Keys : Len(mem[k]) > setting.maxHistory => restarts > 0 /\ Len(mem[k]) <= HydrateMax + 1
  /\ pending \subseteq Keys /\ key \in Seq(Keys)
  /\ pc \in [Messages -> Places] /\ outcome \in [Messages -> Outcomes]
  /\ \A m \in Messages : out[m] \in Seq(Turns) /\ view[m] \in Seq(Turns) /\ loaded[m] \in Seq(Turns)
  /\ restarts \in 0 .. setting.restarts

\* What was said, by whom: the parts of the turns, the requests and replies among them.
Parts(turns) == FoldLeft(LAMBDA parts, t : parts \o t.parts, <<>>, turns)
Spoken(turns) == Only(Parts(turns), {"user", "assistant"} \X (Messages \cup {Closure}))
Has(turns, role, m) == \E i \in DOMAIN turns : <<role, m>> \in Range(turns[i].parts)
File(k) == disk[Sanitize[k]]

\* Nobody works on the conversation.
Quiet(k) == \A m \in Arrived : key[m] = k => pc[m] \in {"done", "lost"}

\* Nobody shares its session file.
Alone(k) == \A j \in Keys : Sanitize[j] = Sanitize[k] => j = k

\* A crash after a tool's result and before the reply leaves a result that a request
\* follows: hydration closes requests only, and the request is merged into the result.
Torn(turns) == \E i \in 2 .. Len(turns) : turns[i - 1].role = "tool" /\ turns[i].role = "user"

\* Messages of a conversation one at a time, and every append reaching its file:
\* the conditions under which memory and file tell the same.
Orderly == ~setting.overlap /\ ~setting.storageFails

\* When nobody works on a conversation, what is remembered of it is the end of
\* what is persisted: the context a restart restores is the one that was there.
MemoryIsFileTail ==
  Orderly => \A k \in Keys : Quiet(k) /\ Alone(k) /\ ~Torn(File(k)) =>
    IsSuffix(Spoken(mem[k]), Spoken(File(k)))

\* The message a worker answers is the last thing its model is shown, and it is
\* shown as the user's, when messages of a conversation come one at a time.
AnswersOwnMessage ==
  ~setting.overlap => \A m \in Arrived : pc[m] = "model" /\ ~Torn(mem[key[m]]) =>
    view[m] # <<>> /\ Last(view[m]).role = "user" /\ Last(Last(view[m]).parts) = <<"user", m>>

\* The marker that closes a failed request stays with it, with other messages in
\* progress and appends that fail too, unless a restart reads a file it did not reach
\* and that ends with tool turns, or it is merged into a call and stripped with it.
Closable(m) ==
  \/ KeepTools = 0
  \/ Orderly /\ Alone(key[m])
  \/ restarts = 0 /\ (setting.overlap => setting.nativeCalls)

\* An assistant's turn follows the request wherever it stands in the conversation, so
\* that the next message does not continue it.
Closed(turns, m) ==
  LET said == Spoken(turns)
  IN  \A i \in DOMAIN said : said[i] = <<"user", m>> =>
        \E j \in DOMAIN said : j > i /\ said[j][1] = "assistant"

FailuresClosed ==
  \A m \in Arrived : pc[m] = "done" /\ outcome[m] = "failed" =>
    /\ Closable(m) => Closed(mem[key[m]], m)
    /\ Orderly /\ Alone(key[m]) => Closed(File(key[m]), m)

\* A request that was rolled back is gone from memory and from the file.
RolledBackGone ==
  \A m \in Arrived : pc[m] = "done" /\ outcome[m] = "rejected" /\ Alone(key[m]) =>
    ~Has(mem[key[m]], "user", m) /\ ~Has(File(key[m]), "user", m)

\* An error leaves no request for the next message to continue.  Memory: a request that
\* failed is closed while Closable.  Memory and file, when messages of a conversation
\* come one at a time and appends succeed: a failed one is closed and a rejected one is
\* gone.  It does not speak of requests that were cancelled or overflowed the context
\* window: the code leaves their turn open.
FailuresResolved == FailuresClosed /\ (Orderly => RolledBackGone)

\* After /new nothing said before it is left, not for the model and not for a
\* restart, once the messages before it are done.
NewForgets ==
  Orderly => \A n \in Arrived : pc[n] = "done" /\ outcome[n] = "new" /\ Alone(key[n]) =>
    \A m \in 1 .. n - 1 : key[m] = key[n] =>
      \A r \in Roles : ~Has(mem[key[n]], r, m) /\ ~Has(File(key[n]), r, m)
=============================================================================

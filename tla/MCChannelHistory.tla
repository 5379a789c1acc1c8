--------------------------- MODULE MCChannelHistory ---------------------------
(* Instances of ChannelHistory for TLC.                                      *)
EXTENDS ChannelHistory

OneKey == {"dm"}
Plain == [k \in OneKey |-> k]

\* A small limit and no tool turns kept; tool turns kept, with their calls written as text;
\* messages in progress at once, with appends that fail, and with tool turns kept.
Sequential == [overlap |-> FALSE, nativeCalls |-> TRUE, storageFails |-> FALSE,
               maxHistory |-> 4, keepTools |-> 0, messages |-> 3, restarts |-> 1]
TextCalls == [overlap |-> FALSE, nativeCalls |-> FALSE, storageFails |-> FALSE,
              maxHistory |-> 20, keepTools |-> 1, messages |-> 3, restarts |-> 1]
Overlapping == [overlap |-> TRUE, nativeCalls |-> TRUE, storageFails |-> TRUE,
                maxHistory |-> 6, keepTools |-> 0, messages |-> 2, restarts |-> 1]
OverlappingTools == [Overlapping EXCEPT !.keepTools = 1, !.storageFails = FALSE, !.restarts = 0]
MCSettings == {Sequential, TextCalls, Overlapping, OverlappingTools}
=============================================================================

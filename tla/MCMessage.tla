----------------------------- MODULE MCMessage ------------------------------
(* The messages of the model-checked instance of Message.                   *)
EXTENDS Message

Meta(cmd, err, async, local, eof, bits) ==
    [cmd |-> cmd, err |-> err, async |-> async, local |-> local, eof |-> eof, bits |-> bits]

\* The last message of a Stream of this side, a request with two user bits, and an
\* error response to CallAsync
MCMetas == <<Meta(6, FALSE, FALSE, TRUE, TRUE, {}),
             Meta(1, FALSE, FALSE, FALSE, FALSE, {0, 7}),
             Meta(2, TRUE, TRUE, FALSE, FALSE, {})>>
MCMethod == <<50>>

=============================================================================

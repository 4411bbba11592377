--------------------------- MODULE MCRequestReplay ---------------------------
(* Instances of RequestReplay for TLC. *)
EXTENDS RequestReplay

F(kind, id, to, keys, form) == [kind |-> kind, id |-> id, to |-> to, keys |-> keys, form |-> form]

CONSTANT h1  \* the host the frames name

\* Key 1 is a send-keys argument, key 2 a navigation key.
Repeats == {F("send_keys", 1, h1, <<1, 1, 2>>, "ok"), F("send_prompt", 1, h1, <<1>>, "ok"),
            F("create_tab", 2, None, <<1>>, "ok"), F("terminate_session", 2, h1, <<1>>, "ok"),
            F("send_keys", None, None, <<2, 1>>, "ok"), F("agent_event", 1, None, <<1>>, "ok"),
            F("send_text", None, None, <<1>>, "broken")}

\* Pane input is metered; an operator has turned the other bucket off.
Metering == [b \in Buckets |-> IF b = "input" THEN 1 ELSE 0]

=============================================================================

--------------------------- MODULE MCAnswerStream ---------------------------
(* Requests for AnswerStream: "<" begins a character of two bytes and ">"   *)
(* ends it, "nl" and "sp" are a new line and a space.                       *)
EXTENDS AnswerStream

MCWidth(c) == CASE c = "<" -> 2 [] c = ">" -> 0 [] OTHER -> 1

Text(stream, tokens, words, predict) ==
    [type |-> "text", stream |-> stream, progress |-> FALSE, shift |-> FALSE, timed |-> FALSE,
     empty |-> FALSE, predict |-> predict, room |-> predict + 1, indent |-> 0,
     words |-> words, pieces |-> tokens]
Split == {<<"x">>, <<"y">>, <<"x", "y">>, <<"y", "<">>, <<">">>}

StopWords ==
    {Text(s, Split, <<<<"x", "y">>>>, 5) : s \in BOOLEAN}
    \cup {Text(TRUE, {<<"x">>, <<"y">>, <<"y", "x">>}, <<<<"x", "y", "y">>, <<"y", "x">>>>, 5)}
    \cup {[Text(TRUE, Split, <<<<"x", "y">>>>, 4) EXCEPT !.room = 3, !.shift = s] : s \in BOOLEAN}
Lines ==
    {[Text(TRUE, {<<"x">>, <<"nl">>, <<"sp">>, <<"nl", "sp", "<">>, <<">">>}, <<>>, 4)
        EXCEPT !.indent = 1, !.timed = t, !.shift = TRUE] : t \in BOOLEAN}
    \cup {[Text(TRUE, {<<"nl">>, <<"sp", "<">>, <<"sp", "x">>, <<">">>}, <<<<"x", "y">>>>, 4)
        EXCEPT !.indent = 2, !.shift = TRUE],
          [Text(TRUE, {<<"nl">>, <<"sp">>, <<"x">>}, <<<<"nl", "x", "x">>>>, 5)
        EXCEPT !.indent = 1, !.shift = TRUE]}

Chat(type, stream, tokens, predict) ==
    [Text(stream, tokens, <<>>, predict) EXCEPT !.type = type]
Chats ==
    UNION {{Chat(t, TRUE, {<<"x">>, <<"<">>, <<">">>}, 4),
            Chat(t, FALSE, {<<"x">>}, 4),
            [Chat(t, TRUE, {<<"x">>}, 2) EXCEPT !.empty = TRUE]} : t \in {"chat", "resp", "anthropic"}}
    \cup {[Chat(t, TRUE, {<<"x">>}, 2) EXCEPT !.progress = TRUE] : t \in {"chat", "resp"}}

MCRequests == StopWords \cup Lines \cup Chats
=============================================================================

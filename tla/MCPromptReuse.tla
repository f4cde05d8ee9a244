---------------------------- MODULE MCPromptReuse ----------------------------
(* Instances of PromptReuse: prompts over two tokens that share beginnings  *)
(* and middles, with a window of two or three positions.                    *)
EXTENDS PromptReuse

Ask(prompt) == [prompt |-> prompt, lora |-> Unset, cachePrompt |-> TRUE]

MCRequests ==
    {Ask(<<"a", "a", "a", "b">>), Ask(<<"b", "b", "b", "b", "b", "b">>),
     Ask(<<"b", "b", "b", "b", "a">>),
     [prompt |-> <<"b", "b", "b", "b", "a">>, lora |-> "adapter", cachePrompt |-> FALSE]}

Lora(prompt, adapters) == [prompt |-> prompt, lora |-> adapters, cachePrompt |-> TRUE]

LoraRequests ==
    {Ask(<<"a", "b", "b">>), Lora(<<"a", "b", "b">>, "adapter"), Lora(<<"a", "b", "b">>, NoLora)}

Setup(slots, window, maxCkpt, requests) ==
    [slots |-> slots, window |-> window, maxCkpt |-> maxCkpt, shiftable |-> window = 0,
     requests |-> requests]
MCSetups ==
    {Setup(1, 0, 0, 3), Setup(1, 2, 0, 3), Setup(1, 2, 1, 3), Setup(1, 2, 2, 3),
     Setup(1, 3, 2, 3), Setup(2, 2, 2, 2)}
OneSlot  == {Setup(1, 2, 2, 3)}

(* Four prompts in one slot, the last ending in a chunk of three tokens.    *)
ThinRequests ==
    {Ask(<<"b", "b", "b", "b">>), Ask(<<"b", "b", "b", "b", "b", "a">>),
     Ask(<<"b", "b", "b", "b", "b", "b">>)}
ThinSetup == {Setup(1, 3, 2, 4)}
=============================================================================

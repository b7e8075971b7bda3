----------------------------- MODULE CommandPrompt -----------------------------
(***************************************************************************)
(* What the server promises a user who awaits each prompt: a prompt, and   *)
(* for every command its answer and the next prompt.  A command is         *)
(* executed once, when everything before it has been said; what it is said *)
(* may be said in pieces, and no word of it is taken back.                 *)
(***************************************************************************)
EXTENDS Commands, Integers

CONSTANT Lines   \* the commands a user may give

Prompt == "> "

VARIABLES asked,   \* the commands given
          heard,   \* the commands executed
          told,    \* all that has been said
          open     \* the user is there

vars == <<asked, heard, told, open>>

\* The whole of what is said for these commands.
Dialogue(commands) ==
    [i \in 1..(2 * Len(commands) + 1) |->
        IF i % 2 = 1 THEN Prompt ELSE Execute(commands[i \div 2])]

\* The first n words of it.
Said(commands, n) == SubSeq(Dialogue(commands), 1, n)

Init == asked = <<>> /\ heard = <<>> /\ told = <<>> /\ open = TRUE

\* What may have been said next, up to the end of what there is to say.
Saying(commands) ==
    told' \in {Said(commands, n) : n \in Len(told)..(2 * Len(commands) + 1)}

\* The user has been prompted for one command more than it has given.
Ask(line) ==
    /\ open /\ Len(told) > 2 * Len(asked)
    /\ asked' = Append(asked, line)
    /\ UNCHANGED <<heard, told, open>>

\* A command is executed; to a user who has left nothing is said.
Execution ==
    /\ Len(heard) < Len(asked)
    /\ open => told = Dialogue(heard)
    /\ heard' = Append(heard, asked[Len(heard) + 1])
    /\ IF open THEN Saying(heard') ELSE UNCHANGED told
    /\ UNCHANGED <<asked, open>>

Say ==
    /\ open /\ Saying(heard)
    /\ UNCHANGED <<asked, heard, open>>

Leave ==
    /\ open /\ open' = FALSE
    /\ UNCHANGED <<asked, heard, told>>

Next == (\E line \in Lines : Ask(line)) \/ Execution \/ Say \/ Leave

Spec == Init /\ [][Next]_vars

=============================================================================

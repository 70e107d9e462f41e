----------------------------- MODULE ByteStream ------------------------------
(* What the serial line promises: the bytes of every answer arrive once, in    *)
(* order, and all of them before the first byte of the next answer.            *)
EXTENDS Naturals

CONSTANTS Answers,     \* words that can be sent
          N,           \* bytes sent of each
          Byte(_, _)   \* byte k of a word

VARIABLES answer,      \* the word on its way
          got,         \* bytes of it that have arrived
          heard        \* the byte that arrived last

Init == answer \in Answers /\ got = N /\ heard \in 0 .. 255

Send == /\ got = N
        /\ answer' \in Answers
        /\ got' = 0
        /\ UNCHANGED heard

Arrive == /\ got < N
          /\ heard' = Byte(answer, got)
          /\ got' = got + 1
          /\ UNCHANGED answer

Next == Send \/ Arrive

Spec == Init /\ [][Next]_<<answer, got, heard>>
=============================================================================

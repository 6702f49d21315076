-------------------------- MODULE MCTelegramPublisher --------------------------
(* A small instance of TelegramPublisher for TLC.                           *)
EXTENDS TelegramPublisher, TLC

CONSTANTS web, upload, private, page

OneOfEach == (web :> "absolute") @@ (upload :> "upload")
             @@ (private :> "rooted") @@ (page :> "relative")

\* Up to three pictures in any order above a short text; up to one with any text.
Pictures(n) == UNION {[1..k -> Images] : k \in 0..n}
SomeDrafts ==
  [images : Pictures(3), text : {"words"}, overlong : {FALSE}]
    \cup [images : Pictures(1), text : {"none", "blank", "words"}, overlong : BOOLEAN]

===============================================================================

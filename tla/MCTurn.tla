-------------------------------- MODULE MCTurn --------------------------------
(***************************************************************************)
(* Turn for TLC.  Two rounds that may ask for tools, so that there is one  *)
(* after tools were run and one past the cap; two calls in a round, so     *)
(* that one can be whole and its neighbour not.  A row holds two of the    *)
(* three fragments a turn may say, so that some replies are truncated.     *)
(***************************************************************************)
EXTENDS Turn

===============================================================================

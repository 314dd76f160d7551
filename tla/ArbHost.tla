------------------------------ MODULE ArbHost -------------------------------
(***************************************************************************)
(* The command `bot1' of index.ts, the one host the repository has for the *)
(* bot: it awaits init(), leaves the switch and calls process.exit().      *)
(* No timer can fire in between, because what follows an await that is     *)
(* over runs before any timer callback.                                    *)
(***************************************************************************)
EXTENDS ArbBot

\* The last line of index.ts.
HostExits ==
  /\ process \in {"up", "exiting"}
  /\ Exit

HostNext == (\E low \in BOOLEAN : InitBot(low)) \/ HostExits

HostSpec == Init /\ [][HostNext]_vars /\ WF_vars(HostNext)
=============================================================================

-------------------------------- MODULE Doors --------------------------------
(***************************************************************************)
(* The two doors to the services, which share no state of their own: the     *)
(* Production MCP an agent's host opens, and the aldus command of a shell.    *)
(***************************************************************************)
EXTENDS McpSurface, Cli

(* Through either door nothing is done beyond what the host granted or the    *)
(* rules of the verb allow, and what is recorded and answered says who did    *)
(* it and whether it was done (surface.ts, cli.ts).                           *)
DoorsAreHonest == SessionsStayWithinGrant /\ InvocationsAreHonest
=============================================================================

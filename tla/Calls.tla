---------------------------------- MODULE Calls ----------------------------------
(* The tool calls that the MCP server runs at once, each in a goroutine of its own. *)

CONSTANT Requests
================================================================================

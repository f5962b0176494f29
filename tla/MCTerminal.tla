----------------------------- MODULE MCTerminal -----------------------------
(***************************************************************************)
(* The terminal with a small screen and a few keys.                        *)
(***************************************************************************)
EXTENDS TerminalSafety

CONSTANTS x, y, mark, nl

MCPrompt == <<mark>>

\* A command that only ends the line, and one that prints in two calls.
MCAnswers == { <<<<nl>>>>, <<<<nl, mark>>, <<mark, nl>>>> }

OneAnswer == { <<<<nl>>>> }

=============================================================================

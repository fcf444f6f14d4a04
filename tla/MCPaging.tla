------------------------------ MODULE MCPaging ------------------------------
(* Tables of two entries.                                                     *)
EXTENDS Paging

\* Pages that share all tables, all but the last, the PD, the PDP or nothing
\* with the first one.
MCVirts == { <<0, 0, 0, 0>>, <<0, 0, 0, 1>>, <<0, 0, 1, 0>>, <<0, 1, 0, 0>>, <<1, 0, 0, 0>> }
=============================================================================

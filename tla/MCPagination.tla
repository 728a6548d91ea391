---------------------------- MODULE MCPagination ----------------------------
(* Instances of Pagination for TLC; dates and ids are ordered, so nothing is symmetric. *)
EXTENDS Pagination, TLC

MCJob == {1, 2, 3}
MCDate == {1, 2}
MCPageSize == {1, 2}
MCNoDate == -1
=============================================================================

--------------------------- MODULE MCConfirmationSaga ---------------------------
(* Small sagas for TLC.                                                          *)
EXTENDS ConfirmationSaga

Start(h, f, g) == [hold |-> h, funds |-> f, given |-> g]

(* With and without seats, for a wallet that covers the price once or twice, by  *)
(* callers that book at a supplier and void that, only book, or do neither.      *)
Various ==
    {Start("ACTIVE", 1, {"call", "void"}), Start("NONE", 2, {"call", "void"}),
     Start("NONE", 1, {"call"}), Start("ACTIVE", 2, {}), Start("ACTIVE", 0, {})}

(* A caller that books and does not void, as the test of a failing saga.         *)
BooksOnly == {Start("ACTIVE", 1, {"call"})}
=============================================================================

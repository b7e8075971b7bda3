------------------------------ MODULE Commands ------------------------------
(***************************************************************************)
(* What the processor answers to a command line: CommandFactory::create    *)
(* compares the whole line with two keywords, the command it makes returns *)
(* a printer, and the printer returns its own name.  The storage a command *)
(* is given is never called.  A line is a sequence of bytes: a keyword     *)
(* with its arguments is more than the keyword alone, so it is Unknown.    *)
(***************************************************************************)
EXTENDS Sequences

InsertLine   == <<"I", "N", "S", "E", "R", "T">>
TruncateLine == <<"T", "R", "U", "N", "C", "A", "T", "E">>

Create(line) ==
    CASE line = InsertLine   -> "Insert"
      [] line = TruncateLine -> "Truncate"
      [] OTHER               -> "Unknown"

Printer == [Insert   |-> "InsertPrinter",
            Truncate |-> "TruncatePrinter",
            Unknown  |-> "UnknownPrinter"]

\* Processor::execute and IResultPrinter::print.
Execute(line) == Printer[Create(line)]

=============================================================================

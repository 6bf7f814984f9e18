------------------------------- MODULE Redaction --------------------------------
(***************************************************************************)
(* What is kept of the parser's message when a configuration file does not    *)
(* parse, redact_quoted of config.rs.  A message is a sequence of marks; the  *)
(* parser quotes the value it objects to, a string between double quotes with *)
(* escapes, anything else between backticks.                                  *)
(***************************************************************************)
EXTENDS Naturals, Sequences, FiniteSetsExt

DoubleQuote == "dquote"
Backtick == "backtick"
Backslash == "backslash"
REDACTED == "redacted"

is_quote(mark) == mark \in {DoubleQuote, Backtick}
First(text, from, Test(_)) ==
    LET found == {i \in from .. Len(text) : Test(text[i])} IN
    IF found = {} THEN 0 ELSE Min(found)

\* Where the segment opened before `from` closes, or 0: between double quotes the
\* mark after a backslash closes nothing.
FirstQuoteCloses(text, from, quote) == First(text, from, LAMBDA mark : mark = quote)
closing_quote(text, from, quote) ==
    LET
      Close[i \in from .. Len(text) + 2] ==
        IF i > Len(text) THEN 0
        ELSE IF text[i] = Backslash THEN Close[i + 2]
        ELSE IF text[i] = quote THEN i ELSE Close[i + 1]
    IN  IF quote # DoubleQuote THEN First(text, from, LAMBDA mark : mark = quote)
        ELSE Close[from]

redact_quoted(message) ==
    LET
      From[at \in 1 .. Len(message) + 1] ==
        LET open == First(message, at, is_quote)
            close == closing_quote(message, open + 1, message[open])
        IN  IF open = 0 THEN SubSeq(message, at, Len(message))
            ELSE SubSeq(message, at, open - 1) \o <<REDACTED>>
                     \o (IF close = 0 THEN <<>> ELSE From[close + 1])
    IN  From[1]

-------------------------------------------------------------------------------
(* What the parser writes                                                    *)

\* A string as the parser spells it, quotes and backslashes escaped.
Debug(text) ==
    LET Out[n \in 0 .. Len(text)] ==
          IF n = 0 THEN <<>>
          ELSE Out[n - 1] \o (IF text[n] \in {DoubleQuote, Backslash}
                              THEN <<Backslash, text[n]>> ELSE <<text[n]>>)
    IN  <<DoubleQuote>> \o Out[Len(text)] \o <<DoubleQuote>>
Display(text) == <<Backtick>> \o text \o <<Backtick>>
Word == <<"word">>

\* Nothing of a value the parser quotes is left, whatever marks the value has, and
\* nothing of the words around it is lost.
IsHidden(secret) ==
    LET number == SelectSeq(secret, LAMBDA mark : mark # Backtick) IN
    redact_quoted(Word \o Debug(secret) \o Word \o Display(number) \o Word)
        = Word \o <<REDACTED>> \o Word \o <<REDACTED>> \o Word
===============================================================================

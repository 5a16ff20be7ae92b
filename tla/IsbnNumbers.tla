----------------------------- MODULE IsbnNumbers -----------------------------
(***************************************************************************)
(* The two forms of an ISBN (services/isbn_utils.py) as sequences of       *)
(* digits, 10 standing for the X of an ISBN-10.                            *)
(***************************************************************************)
EXTENDS Integers, Sequences

\* What the regular expressions admit.
Digit == 0..9
Isbn13 == [1..13 -> Digit]

\* The weights run 1, 3, 1, 3 ... and 10, 9, 8 ...
Sum13(n) == n[1] + n[3] + n[5] + n[7] + n[9] + n[11]
            + 3 * (n[2] + n[4] + n[6] + n[8] + n[10] + n[12])
Sum10(n) == 10 * n[1] + 9 * n[2] + 8 * n[3] + 7 * n[4] + 6 * n[5] + 5 * n[6]
            + 4 * n[7] + 3 * n[8] + 2 * n[9]

Check13(core) == (10 - (Sum13(core) % 10)) % 10

\* Mutant: what is over is the check digit, as with an ISBN-13.
Check10OfRest(core) == Sum10(core) % 11

\* 11 - remainder, where 11 is written 0 and 10 is written X.
Check10(core) ==
    LET value == 11 - (Sum10(core) % 11) IN IF value = 11 THEN 0 ELSE value

\* normalize_isbn does not look at the check digit it is given.
ToIsbn13(isbn10) ==
    LET core == <<9, 7, 8>> \o SubSeq(isbn10, 1, 9) IN Append(core, Check13(core))

HasIsbn10(isbn13) == SubSeq(isbn13, 1, 3) = <<9, 7, 8>>
ToIsbn10(isbn13) ==
    LET core == SubSeq(isbn13, 4, 12) IN Append(core, Check10(core))

\* What makes an ISBN one.
IsIsbn13(isbn) == (Sum13(isbn) + isbn[13]) % 10 = 0
IsIsbn10(isbn) == (Sum10(isbn) + isbn[10]) % 11 = 0
=============================================================================

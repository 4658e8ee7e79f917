------------------------------- MODULE MC_Lexer -------------------------------
(* All short texts over four alphabets: numbers, words and names, strings, comments.        *)
EXTENDS Lexer

MCChars == <<"NUL", "\t", "\n", "\f", "\r", " ", "!", "\"", "#", "$", "%", "&", "'", "(", ")", "*", "+", "-", ".", "/",
             "0", "1", "2", "5", "6", "8", "9", ":", ";", "<", "=", ">", "?", "@", "A", "E", "F", "P", "X", "Z", "\\", "^", "_",
             "a", "b", "d", "e", "f", "i", "n", "p", "r", "u", "x", "z", "{", "|", "}", "~">>

MCKeywords == << <<"br", <<"b", "r">>>>, <<"if", <<"i", "f">>>>, <<"br_if", <<"b", "r", "_", "i", "f">>>>,
                 <<"i", <<"i">>>> >>

UpTo(n, A) == UNION {[1..k -> A] : k \in 0..n}
Lines(ts) == {t \o <<"\n">> : t \in ts}
Around(before, ts, after) == {before \o t \o after : t \in ts}

MCTexts ==
    Lines(UpTo(4, {"0", "e", "x", "_", "+", ".", " "})
          \cup Around(<<"0", "x", "1">>, UpTo(4, {"0", "a", "p", "_", "-", "."}), <<>>)
          \cup Around(<<"-", "1">>, UpTo(3, {"2", "8", "9", "_"}), <<>>) \cup Around(<<"2">>, UpTo(2, {"5", "6"}), <<>>)
          \cup Around(<<"-", "0", "x", "8">>, UpTo(3, {"0", "1", "_"}), <<>>)
          \cup Around(<<"1">>, UpTo(4, {"9", "E", ".", "_", "-"}), <<>>)
          \cup UpTo(4, {"b", "r", "_", "i", "f", "n"}) \cup Around(<<"b", "r">>, UpTo(3, {"_", "i", "f", ";", "="}), <<>>)
          \cup Around(<<"-", "n", "a", "n">>, UpTo(5, {":", "0", "X", "F"}), <<>>)
          \cup Around(<<"$">>, UpTo(3, {"a", "=", "\"", "(", "$", "^"}), <<>>)
          \cup Around(<<"\"">>, UpTo(4, {"a", "\\", "u", "{", "}", "\"", "\n"}), <<"\"">>)
          \cup Around(<<"\"", "\\", "u", "{">>, UpTo(4, {"d", "8", "0", "F"}), <<"}", "n", "\"">>)
          \cup Around(<<"\"", "\\", "u", "{", "1">>, [1..5 -> {"0", "1"}], <<"0", "}", "\"">>)
          \cup UpTo(5, {"(", ";", ")", "\n", "1"}) \cup UpTo(4, {"(", ";", "\t", "\n", "=", "z"}))
=============================================================================

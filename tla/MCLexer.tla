------------------------------ MODULE MCLexer ------------------------------
(***************************************************************************)
(* The lexer on short texts of every kind.                                 *)
(***************************************************************************)
EXTENDS LexicalGrammar, SequencesExt

(* The texts of at most `max' of the given pieces.                         *)
Of(pieces, max) == {FlattenSeq(s) : s \in UNION {[1 .. n -> pieces] : n \in 0 .. max}}
Single(chars) == {<< c >> : c \in chars}

NumberTexts    == Of(Single({"0", "1", ".", "e", "x", "b", "+"}) \cup {<< ".", ".", "." >>}, 4)
OperatorTexts  == Of(Single({"<", ">", "=", "-", "&", "^", "/", "*", "?", "@", Backtick}), 3)
QuotedTexts    == Of(Single({"/", "*", "\"", "'", "\\", "\n", "a"})
                     \cup {<< "/", "*" >>, << "*", "/" >>}, 4)
DirectiveTexts == Of({<< "#" >>, If, Else, << "\n" >>, << " " >>, << "_", "1" >>,
                      << "i", "f", "d", "e", "f" >>}, 4)
AllTexts == NumberTexts \cup OperatorTexts \cup QuotedTexts \cup DirectiveTexts

Words == {If, Else}

=============================================================================

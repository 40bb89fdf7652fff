----------------------------- MODULE ChatChannel -----------------------------
(***************************************************************************)
(* What ChatChannel.reply makes of a message: lines that are too long are  *)
(* split at the delimiters, the pieces are put together again to as few    *)
(* server commands as fit, and every command starts with the color the one *)
(* before it ended with.                                                   *)
(*                                                                         *)
(* A line is a sequence of words, each with its delimiter; of a word only  *)
(* the length and the color tag it ends up with matter.  Quotes, and what  *)
(* the format of the channel puts around a message, are left out.          *)
(***************************************************************************)
EXTENDS Naturals, SequencesExt

CONSTANTS
  Limit,         \* the longest piece of a line (100 by default)
  MAX_MSG_LENGTH \* the longest message (1000 in the code)

NoColor == 0

Word == [len : Nat \ {0}, color : Nat]

Length(words) == FoldLeft(LAMBDA n, w : n + w.len, 0, words)

\* Pieces are joined by a newline.
MessageLength(pieces) == FoldLeft(LAMBDA n, p : n + Length(p), Len(pieces) - 1, pieces)

Piece == {p \in Seq(Word) : Length(p) <= Limit}

Message == {m \in Seq(Seq(Word)) : MessageLength(m) <= MAX_MSG_LENGTH}

\* Each item joins the last group if that is in groups with it, or begins one.
Packed(items, groups) ==
  LET packed[k \in 0 .. Len(items)] ==
        IF k = 0 THEN <<>>
        ELSE LET before == packed[k - 1]
             IN IF before # <<>> /\ Append(Last(before), items[k]) \in groups
                THEN Append(Front(before), Append(Last(before), items[k]))
                ELSE Append(before, <<items[k]>>)
  IN packed[Len(items)]

\* Mutant: a word that just does not fit is still added to the piece.
SplitLineOffByOne(line) ==
  IF Length(line) <= Limit THEN <<line>>
  ELSE Packed(line, {p \in Seq(Word) : Length(p) <= Limit + 1})

SplitLine(line) == IF Length(line) <= Limit THEN <<line>> ELSE Packed(line, Piece)

split_long_lines(lines) == FlattenSeq([k \in DOMAIN lines |-> SplitLine(lines[k])])

JoinPieces(pieces) == Packed(pieces, Message)

\* The last color in a message that starts with that color.
LastColor(color, pieces) ==
  LET words == FlattenSeq(pieces)
      tagged == {k \in DOMAIN words : words[k].color # NoColor}
  IN IF tagged = {} THEN color ELSE words[Max(tagged)].color

\* Mutant: the color is looked for in what the message adds to the one before.
WithColorsOfItsOwn(joined) ==
  LET color[k \in 1 .. Len(joined)] ==
        IF k = 1 THEN NoColor ELSE LastColor(NoColor, joined[k - 1])
  IN [k \in DOMAIN joined |-> [color |-> color[k], pieces |-> joined[k]]]

WithColors(joined) ==
  LET color[k \in 1 .. Len(joined)] ==
        IF k = 1 THEN NoColor ELSE LastColor(color[k - 1], joined[k - 1])
  IN [k \in DOMAIN joined |-> [color |-> color[k], pieces |-> joined[k]]]

\* ChatChannel.reply: the messages put off to the next frame, for every recipient.
reply(lines) == WithColors(JoinPieces(split_long_lines(lines)))

=============================================================================

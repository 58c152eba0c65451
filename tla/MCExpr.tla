------------------------------- MODULE MCExpr -------------------------------
EXTENDS ExprMeaning
Free(chars, len) == [after |-> [c \in chars |-> chars], first |-> chars, len |-> len]
Ordered(nums, ops, len) ==
  [after |-> [c \in nums \cup ops |-> IF c \in nums THEN ops ELSE nums], first |-> nums, len |-> len]
MCAlphabets ==
  { Free({"2", "-", "*", "(", ")"}, 5), Free({"1", "<", ">", " ", "x"}, 4),
    Free({"8", "/", "-", "1"}, 4), Free({"0", "7", "%", "~", "*"}, 4),
    Ordered({"2", "3"}, {"|", "^", "&", "+", "/"}, 7)}
=============================================================================

-------------------------- MODULE MCExpenseActivity --------------------------
(* ExpenseActivity for TLC: a category with and without a subcategory. *)
EXTENDS ExpenseActivity, TLC

MCCategories == {[category |-> "food", sub |-> NoSub], [category |-> "food", sub |-> "cafe"]}
MCKeys == <<"categories", "monthly">>

Symmetric == Permutations(Requests)
=============================================================================

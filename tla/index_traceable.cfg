\* One seed between two statements of a search.
SPECIFICATION Spec
CONSTANTS
    first = first  second = second
    vacation = vacation  expenses = expenses
    leave = leave  carry = carry  meals = meals
    march = march  june = june
    Searches = {first}
    Corpora <- TheCorpora
    PolicyOf <- ThePolicies
    K = 2
    Candidates = 2
    TopK = 2
    MaxSeeds = 1
INVARIANT SearchIsTraceable
\* the request ends
CHECK_DEADLOCK FALSE

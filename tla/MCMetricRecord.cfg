CONSTANTS
    Val = {0, 1}
    Times = {1, 2}
    Ids = {7}
    NotANumber = NotANumber
    Divisors <- MCDivisors
SPECIFICATION OperandsSpec
INVARIANT NetworkRoundTrip
